---- MODULE Spec2Model ----
(***************************************************************************)
(* Model of the sifter digest pipeline (pixelhop/sifter): the Episode and  *)
(* Digest state machines, the BullMQ queues that start the stage handlers, *)
(* and the stage handlers themselves, one action per database operation    *)
(* of a handler (an external call that precedes a write is folded into the *)
(* write's action: it touches no shared state).                            *)
(***************************************************************************)
EXTENDS Integers, FiniteSets, Sequences, TLC

(* ---------------------------------------------------------------- bounds *)
\* transcriptionWorker invocations that may be running at the same time
MaxTRuns == 2
\* analysis handler runs explored
MaxARuns == 2
\* clips one LLM analysis answer may hold
MaxClips == 1
\* stalled-job redeliveries explored per queue
MaxStalls == 1
\* clips of the analyzed Episode a curation starts from
MaxCandidates == 2
\* transitions one narrator script may hold
MaxTransitions == 1
\* candidates, ids of an LLM answer and targetClipCount values of one evaluation
\* of the curation handler's phases 4 and 5
MaxPickCandidates == 3
MaxAnswer == 3
MaxTargetMin == 2
MaxTargetMax == 3
\* clip files and transition files handed to one stitchDigest call
MaxStitchClips == 4
MaxStitchTransitions == 4

\* clips of one LLM analysis answer and the greatest time (in seconds) named by
\* an answer, in one evaluation of the analysis handler's insert loop
MaxSaveClips == 2
MaxClipTime == 2

\* one evaluation of the transcript a Transcription run stores: the audio lasts
\* up to MaxMergeDuration seconds and is cut with targetChunkDurationSeconds =
\* ChunkTarget and overlapSeconds = ChunkOverlap; the STT answer for one file
\* holds up to MaxSegments segments
MaxMergeDuration == 4
ChunkTarget == 2
ChunkOverlap == 1
MaxSegments == 2

\* the audio handed to prepareAudioForWhisper / splitAudioIntoChunks lasts up to
\* MaxAudioTenMinutes times ten minutes
MaxAudioTenMinutes == 12

MaxDfClips == 2           \* DigestClips of the Digest of one digestWorker run
MaxDfTransitions == 1     \* transitions of its narrator script

MaxDlElapsed == 5         \* ten-minute units one download attempt is followed for

MaxPollEpisodes == 2      \* Episodes one call of waitForEpisodesAnalyzed waits for

(* ------------------------------------------------------------- constants *)
\* attempts: 3 of every transcription / analysis job
Attempts == 3

\* WHISPER_MAX_FILE_SIZE = 25 * 1024 * 1024 bytes
WHISPER_MAX_FILE_SIZE == 26214400
\* DEFAULT_CHUNK_DURATION_SECONDS = 20 * 60
DEFAULT_CHUNK_DURATION_SECONDS == 1200
\* targetChunkDurationSeconds: 25 * 60 of prepareAudioForWhisper's split
PrepareChunkSeconds == 1500
\* overlapSeconds = 2, the default of splitAudioIntoChunks
DefaultOverlapSeconds == 2
\* the "64k" (bits per second) of tryCompressForWhisper, in bytes per second
CompressedBytesPerSecond == 8000
\* downloadAudio: timeout = 30 * 60 * 1000 ms, in units of ten minutes
DefaultTimeoutTenMinutes == 3
\* downloadAudio: maxRetries = 3
DownloadMaxRetries == 3
\* the Orchestrator's poll loop
POLL_INTERVAL_MS == 5000
MAX_POLL_TIME_MS == 1200000

Episodes == {"e1"}
Users == {"u1", "u2"}
TRuns == 1..MaxTRuns
ARuns == 1..MaxARuns
\* what the STT provider may answer (an opaque transcript document)
Transcripts == {1}
NoTranscript == 0

EpisodeStatus ==
  {"pending", "downloading", "transcribing", "transcribed", "analyzing", "analyzed", "failed"}

\* the order of the Episode pipeline (failed stands outside of it)
Rank(s) ==
  CASE s = "pending" -> 0
    [] s = "downloading" -> 1
    [] s = "transcribing" -> 2
    [] s = "transcribed" -> 3
    [] s = "analyzing" -> 4
    [] s = "analyzed" -> 5
    [] OTHER -> 6

VARIABLES
  status,      \* Episode.status
  transcript,  \* Episode.transcript (NoTranscript = null)
  clips,       \* Clip rows of each Episode: <<analysis run, index>>
  tjob,        \* the job "transcription-{episodeId}" of the transcription queue
  ajob,        \* the job "analysis-{episodeId}-{userId}" of the analysis queue
  trun,        \* transcriptionWorker invocations
  arun,        \* analysisWorker invocations
  stalls,      \* stalled-job redeliveries so far, per queue
  orun,        \* the orchestratorWorker invocation
  digest,      \* the Digest row with its DigestClip rows (status "none": not created)
  cjob,        \* the job "curation-{digestId}" of the curation queue
  djob,        \* the job "digest-{digestId}" of the digest queue
  crun,        \* curationWorker invocations: the queue's worker and the inline call
  drun,        \* digestWorker invocations: the queue's worker and the inline call
  pick,        \* one evaluation of the curation handler's phases 4 and 5
  stitch,      \* one evaluation of stitchDigest's sequence loop
  save,        \* one evaluation of analysisWorker's clip insert loop
  merge,       \* one evaluation of the transcript a Transcription run stores
  prep,        \* one evaluation of prepareAudioForWhisper / splitAudioIntoChunks
  llm,         \* one call of LLMClient.complete
  poll,        \* one call of waitForEpisodesAnalyzed, with its clock
  dl,          \* one attempt of downloadAudio, with its clock
  tfiles,      \* the temp files of one transcriptionWorker run
  dfiles       \* the temp files of one digestWorker run

\* the Episode side and the Digest side of the state
evars == <<status, transcript, clips, tjob, ajob, trun, arun, stalls>>
dvars == <<digest, cjob, djob, crun, drun>>
\* the handler functions evaluated on their own
rvars == <<llm, poll, dl, tfiles, dfiles>>
pvars == <<pick, stitch, save, merge, prep>>
fvars == <<pick, stitch, save, merge, prep, llm, poll, dl, tfiles, dfiles>>
vars == <<status, transcript, clips, tjob, ajob, trun, arun, stalls, orun,
          digest, cjob, djob, crun, drun, pick, stitch, save, merge, prep, llm, poll, dl,
          tfiles, dfiles>>

(* ------------------------------------------------------------ the queues *)
NoJob == [st |-> "none", att |-> 0]

\* queue.add(name, data, {jobId, attempts: 3, ...}): a job id that already exists
\* in the queue is not added again
QueueAdd(job) == IF job.st = "none" THEN [st |-> "waiting", att |-> 0] ELSE job

\* the handler returned: the job is completed
JobCompleted(job) == [job EXCEPT !.st = "completed"]

\* the handler threw: retried while attempts remain, failed afterwards
JobThrew(job) ==
  IF job.att + 1 < Attempts
    THEN [st |-> "waiting", att |-> job.att + 1]
    ELSE [st |-> "failed", att |-> job.att + 1]

\* what the end of a handler run does to its job; a run that lost the job's lock
\* (the job stalled and was delivered again) no longer moves it
JobAfter(job, owner, outcome) ==
  IF ~owner THEN job
  ELSE IF outcome = "ok" THEN JobCompleted(job)
  ELSE IF outcome = "threw" THEN JobThrew(job)
  ELSE job

(* --------------------------------------------------- transcriptionWorker *)
IdleT == [ep |-> "e1", pc |-> "idle", owner |-> FALSE, result |-> NoTranscript]

TEnded == {"returned", "busy", "done", "threw"}

\* a status check that no longer treats "transcribing" as work in progress
TStatusCheckNoBusy(seen) ==
  IF seen = "transcribed" THEN "returned"
  ELSE IF seen = "downloading" THEN "busy"
  ELSE "checked"

\* the status check at the head of the handler, on the status it has just read
TStatusCheck(seen) ==
  IF seen = "transcribed" THEN "returned"
  ELSE IF seen \in {"downloading", "transcribing"} THEN "busy"
  ELSE "checked"

\* how a head-of-handler outcome ends the job (or not yet)
TOutcome(pc) ==
  IF pc = "returned" THEN "ok" ELSE IF pc = "busy" THEN "threw" ELSE "running"

\* the invocation slot a delivery takes: the first one that is not running
FreeT(r) == trun[r].pc \in TEnded \cup {"idle"}
NextT == IF \E r \in TRuns : FreeT(r)
           THEN CHOOSE r \in TRuns : FreeT(r) /\ \A q \in TRuns : FreeT(q) => r <= q
           ELSE 0

\* the handler's first read and its checks
TBegin(r, e) ==
  LET seen == status[e]
      pc == TStatusCheck(seen)
  IN /\ trun' = [q \in TRuns |->
                   IF q = r
                     THEN [ep |-> e, pc |-> pc, owner |-> pc = "checked",
                           result |-> IF pc = "returned" THEN transcript[e] ELSE NoTranscript]
                   ELSE IF trun[q].ep = e /\ trun[q].pc # "idle"
                     THEN [trun[q] EXCEPT !.owner = FALSE]
                   ELSE trun[q]]
     /\ tjob' = [tjob EXCEPT ![e] = JobAfter([@ EXCEPT !.st = "active"], TRUE, TOutcome(pc))]

\* the worker takes the waiting job
TDeliver(r, e) ==
  /\ r = NextT
  /\ r \in TRuns
  /\ tjob[e].st = "waiting"
  /\ TBegin(r, e)
  /\ UNCHANGED <<status, transcript, clips, ajob, arun, stalls, orun, dvars, fvars>>

\* the active job stalls (its lock expires) and is delivered again while the
\* first invocation is still running
TRedeliver(r, e) ==
  /\ r = NextT
  /\ r \in TRuns
  /\ tjob[e].st = "active"
  /\ stalls["transcription"] < MaxStalls
  /\ \E q \in TRuns : trun[q].ep = e /\ trun[q].owner /\ trun[q].pc \notin TEnded \cup {"idle"}
  /\ TBegin(r, e)
  /\ stalls' = [stalls EXCEPT !["transcription"] = @ + 1]
  /\ UNCHANGED <<status, transcript, clips, ajob, arun, orun, dvars, fvars>>

\* prisma.episode.update({ data: { status: "downloading" } })
TSetDownloading(r) ==
  /\ trun[r].pc = "checked"
  /\ status' = [status EXCEPT ![trun[r].ep] = "downloading"]
  /\ trun' = [trun EXCEPT ![r].pc = "downloading"]
  /\ UNCHANGED <<transcript, clips, tjob, ajob, arun, stalls, orun, dvars, fvars>>

\* a catch block that throws the error to the queue without the status write
TCatchNoStatus(r) ==
  /\ tjob' = [tjob EXCEPT ![trun[r].ep] = JobAfter(@, trun[r].owner, "threw")]
  /\ UNCHANGED <<status, transcript, fvars>>

\* the catch block: status "failed", then the error is thrown to the queue
TCatch(r) ==
  /\ status' = [status EXCEPT ![trun[r].ep] = "failed"]
  /\ tjob' = [tjob EXCEPT ![trun[r].ep] = JobAfter(@, trun[r].owner, "threw")]
  /\ UNCHANGED transcript

\* downloadAudio, then update status "transcribing"; a failed download goes to catch
TDownload(r) ==
  /\ trun[r].pc = "downloading"
  /\ \E ok \in BOOLEAN :
       IF ok
         THEN /\ status' = [status EXCEPT ![trun[r].ep] = "transcribing"]
              /\ trun' = [trun EXCEPT ![r].pc = "transcribing"]
              /\ UNCHANGED <<transcript, tjob>>
         ELSE /\ TCatch(r)
              /\ trun' = [trun EXCEPT ![r].pc = "threw", ![r].owner = FALSE]
  /\ UNCHANGED <<clips, ajob, arun, stalls, orun, dvars, fvars>>

\* whisper.transcribe (single file or chunks), then the update that saves the
\* transcript with status "transcribed"; an STT failure goes to catch
TTranscribe(r) ==
  /\ trun[r].pc = "transcribing"
  /\ \E ok \in BOOLEAN, t \in Transcripts :
       IF ok
         THEN /\ status' = [status EXCEPT ![trun[r].ep] = "transcribed"]
              /\ transcript' = [transcript EXCEPT ![trun[r].ep] = t]
              /\ trun' = [trun EXCEPT ![r].pc = "done", ![r].owner = FALSE]
              /\ tjob' = [tjob EXCEPT ![trun[r].ep] = JobAfter(@, trun[r].owner, "ok")]
         ELSE /\ TCatch(r)
              /\ trun' = [trun EXCEPT ![r].pc = "threw", ![r].owner = FALSE]
  /\ UNCHANGED <<clips, ajob, arun, stalls, orun, dvars, fvars>>

(* -------------------------------------------------------- analysisWorker *)
IdleA == [ep |-> "e1", user |-> "u1", pc |-> "idle", owner |-> FALSE,
          n |-> 0, i |-> 0, result |-> {}]

AEnded == {"returned", "notranscript", "busy", "done", "threw"}

\* head-of-handler checks without the "already analyzed" short cut
AStatusCheckNoDedup(seen, hasTranscript) ==
  IF ~hasTranscript THEN "notranscript"
  ELSE IF seen = "analyzing" THEN "busy"
  ELSE "checked"

\* the checks at the head of the handler, on the episode row it has just read
AStatusCheck(seen, hasTranscript) ==
  IF seen = "analyzed" THEN "returned"
  ELSE IF ~hasTranscript THEN "notranscript"
  ELSE IF seen = "analyzing" THEN "busy"
  ELSE "checked"

AOutcome(pc) ==
  IF pc = "returned" THEN "ok"
  ELSE IF pc \in {"notranscript", "busy"} THEN "threw"
  ELSE "running"

NextA == Cardinality({r \in ARuns : arun[r].pc # "idle"}) + 1

\* the clips analysis run r inserts when the LLM answered with n clips
ClipsOf(r, n) == {<<r, k>> : k \in 1..n}

\* the handler's first read and its checks; an analyzed episode's clips are read
\* and returned
ABegin(r, e, u) ==
  LET seen == status[e]
      pc == AStatusCheck(seen, transcript[e] # NoTranscript)
  IN /\ arun' = [q \in ARuns |->
                   IF q = r
                     THEN [ep |-> e, user |-> u, pc |-> pc, owner |-> pc = "checked",
                           n |-> 0, i |-> 0,
                           result |-> IF pc = "returned" THEN clips[e] ELSE {}]
                   ELSE IF arun[q].ep = e /\ arun[q].user = u /\ arun[q].pc # "idle"
                     THEN [arun[q] EXCEPT !.owner = FALSE]
                   ELSE arun[q]]
     /\ ajob' = [ajob EXCEPT ![e][u] = JobAfter([@ EXCEPT !.st = "active"], TRUE, AOutcome(pc))]

ADeliver(r, e, u) ==
  /\ r = NextA
  /\ r \in ARuns
  /\ ajob[e][u].st = "waiting"
  /\ ABegin(r, e, u)
  /\ UNCHANGED <<status, transcript, clips, tjob, trun, stalls, orun, dvars, fvars>>

ARedeliver(r, e, u) ==
  /\ r = NextA
  /\ r \in ARuns
  /\ ajob[e][u].st = "active"
  /\ stalls["analysis"] < MaxStalls
  /\ \E q \in ARuns : /\ arun[q].ep = e /\ arun[q].user = u /\ arun[q].owner
                      /\ arun[q].pc \notin AEnded \cup {"idle"}
  /\ ABegin(r, e, u)
  /\ stalls' = [stalls EXCEPT !["analysis"] = @ + 1]
  /\ UNCHANGED <<status, transcript, clips, tjob, trun, orun, dvars, fvars>>

\* prisma.episode.update({ data: { status: "analyzing" } })
ASetAnalyzing(r) ==
  /\ arun[r].pc = "checked"
  /\ status' = [status EXCEPT ![arun[r].ep] = "analyzing"]
  /\ arun' = [arun EXCEPT ![r].pc = "analyzing"]
  /\ UNCHANGED <<transcript, clips, tjob, ajob, trun, stalls, orun, dvars, fvars>>

\* llm.complete and the parse of its answer, then clip.deleteMany (the DigestClip
\* rows of a deleted Clip go with it: ON DELETE CASCADE); an LLM or parse error
\* goes to the catch block (status "failed", rethrow)
ACallLLM(r) ==
  /\ arun[r].pc = "analyzing"
  /\ \E ok \in BOOLEAN, n \in 0..MaxClips :
       IF ok
         THEN /\ clips' = [clips EXCEPT ![arun[r].ep] = {}]
              /\ digest' = [digest EXCEPT
                             !.clips = {row \in @ : row[1] \notin clips[arun[r].ep]}]
              /\ arun' = [arun EXCEPT ![r].pc = "inserting", ![r].n = n]
              /\ UNCHANGED <<status, ajob>>
         ELSE /\ status' = [status EXCEPT ![arun[r].ep] = "failed"]
              /\ ajob' = [ajob EXCEPT ![arun[r].ep][arun[r].user] =
                            JobAfter(@, arun[r].owner, "threw")]
              /\ arun' = [arun EXCEPT ![r].pc = "threw", ![r].owner = FALSE]
              /\ UNCHANGED <<clips, digest>>
  /\ UNCHANGED <<transcript, tjob, trun, stalls, orun, cjob, djob, crun, drun, fvars>>

\* one prisma.clip.create of the insert loop
AInsert(r) ==
  /\ arun[r].pc = "inserting"
  /\ arun[r].i < arun[r].n
  /\ clips' = [clips EXCEPT ![arun[r].ep] = @ \cup {<<r, arun[r].i + 1>>}]
  /\ arun' = [arun EXCEPT ![r].i = @ + 1]
  /\ UNCHANGED <<status, transcript, tjob, ajob, trun, stalls, orun, dvars, fvars>>

\* prisma.episode.update({ data: { status: "analyzed" } }), return createdClips
AFinish(r) ==
  /\ arun[r].pc = "inserting"
  /\ arun[r].i = arun[r].n
  /\ status' = [status EXCEPT ![arun[r].ep] = "analyzed"]
  /\ ajob' = [ajob EXCEPT ![arun[r].ep][arun[r].user] = JobAfter(@, arun[r].owner, "ok")]
  /\ arun' = [arun EXCEPT ![r].pc = "done", ![r].owner = FALSE]
  /\ UNCHANGED <<transcript, clips, tjob, trun, stalls, orun, dvars, fvars>>

(* -------------------------------------------------------------- API routes *)
\* POST /api/episodes/:id/transcribe
ApiTranscribe(e) ==
  /\ status[e] \in {"pending", "failed"}
  /\ status' = [status EXCEPT ![e] = "pending"]
  /\ tjob' = [tjob EXCEPT ![e] = QueueAdd(@)]
  /\ UNCHANGED <<transcript, clips, ajob, trun, arun, stalls, orun, dvars, fvars>>

\* POST /api/episodes/:id/analyze
ApiAnalyze(e, u) ==
  /\ \/ status[e] = "transcribed"
     \/ status[e] = "failed" /\ transcript[e] # NoTranscript
  /\ status' = [status EXCEPT ![e] = "transcribed"]
  /\ ajob' = [ajob EXCEPT ![e][u] = QueueAdd(@)]
  /\ UNCHANGED <<transcript, clips, tjob, trun, arun, stalls, orun, dvars, fvars>>

(* ------------------------------------------------------ orchestratorWorker *)
IdleO == [user |-> "u1", pc |-> "idle", snap |-> [e \in Episodes |-> "pending"],
          todo |-> {}, queued |-> {}]

\* phase 1: the user's recent episodes are read once, with their statuses
OStart(u) ==
  /\ orun.pc \in {"idle", "polled", "failed", "threw", "done"}
  /\ orun' = [user |-> u, pc |-> "fanout", snap |-> status,
              todo |-> {e \in Episodes : status[e] \in {"pending", "failed"}},
              queued |-> {}]
  /\ UNCHANGED <<status, transcript, clips, tjob, ajob, trun, arun, stalls, dvars, fvars>>

\* phase 2, one episode of needsTranscription: reset failed to pending, add the job
OFanout(e) ==
  /\ orun.pc = "fanout"
  /\ e \in orun.todo
  /\ status' = [status EXCEPT ![e] = IF orun.snap[e] = "failed" THEN "pending" ELSE @]
  /\ tjob' = [tjob EXCEPT ![e] = QueueAdd(@)]
  /\ orun' = [orun EXCEPT !.todo = @ \ {e}]
  /\ UNCHANGED <<transcript, clips, ajob, trun, arun, stalls, dvars, fvars>>

\* phase 3: analysis jobs for the episodes read as transcribed; phase 4 is
\* entered unless every episode was read as analyzed
OQueueAnalysis ==
  /\ orun.pc = "fanout"
  /\ orun.todo = {}
  /\ ajob' = [e \in Episodes |->
                IF orun.snap[e] = "transcribed"
                  THEN [ajob[e] EXCEPT ![orun.user] = QueueAdd(@)]
                  ELSE ajob[e]]
  /\ orun' = [orun EXCEPT !.pc = IF \A e \in Episodes : orun.snap[e] = "analyzed"
                                   THEN "polled" ELSE "poll",
                          !.snap = IdleO.snap]
  /\ UNCHANGED <<status, transcript, clips, tjob, trun, arun, stalls, dvars, fvars>>

\* one round of waitForEpisodesAnalyzed
OPoll ==
  /\ orun.pc = "poll"
  /\ LET newly == {e \in Episodes : status[e] = "transcribed" /\ e \notin orun.queued}
         processing == {e \in Episodes : status[e] \notin {"analyzed", "failed"}}
         analyzed == {e \in Episodes : status[e] = "analyzed"}
     IN /\ ajob' = [e \in Episodes |->
                      IF e \in newly THEN [ajob[e] EXCEPT ![orun.user] = QueueAdd(@)]
                      ELSE ajob[e]]
        /\ orun' = [orun EXCEPT !.queued = IF processing # {} THEN @ \cup newly ELSE {},
                                !.pc = IF processing # {} THEN "poll"
                                       ELSE IF analyzed # {} THEN "polled" ELSE "failed"]
  /\ UNCHANGED <<status, transcript, clips, tjob, trun, arun, stalls, dvars, fvars>>

\* MAX_POLL_TIME_MS has passed: the loop is left with whatever is analyzed
OPollTimeout ==
  /\ orun.pc = "poll"
  /\ orun' = [orun EXCEPT !.pc = "polled", !.queued = {}]
  /\ UNCHANGED <<status, transcript, clips, tjob, ajob, trun, arun, stalls, dvars, fvars>>

(* ------------------------------------------------------------ the Digest *)
\* who invokes a Digest stage handler: the queue's Worker, or the Orchestrator
\* calling the handler directly
Workers == {"queue", "inline"}

DigestStatus ==
  {"pending", "curating", "generating_script", "generating_audio", "stitching",
   "ready", "failed"}

\* clips: the DigestClip rows <<clipId, order>>; script: narratorScript is set;
\* transitions: the length of narratorScript.transitions; audio: audioUrl is
\* set; duration: the duration column; podcast: the Digest's podcastId names a
\* Podcast row; episodeIds: the episodeIds column
NoDigest ==
  [status |-> "none", clips |-> {}, script |-> FALSE, transitions |-> 0,
   audio |-> FALSE, duration |-> 0, podcast |-> FALSE, episodeIds |-> {}]

\* targetClipCount.min of every curation request
TargetClipMin == 6

\* the Clip rows of the Digest's episodes
AllClips == UNION {clips[e] : e \in Episodes}

\* every Clip id a request may name
ClipIds ==
  {<<r, k>> : r \in ARuns,
              k \in 1..(IF MaxClips >= MaxCandidates THEN MaxClips ELSE MaxCandidates)}

\* an id that names no Clip
NoClip == <<0, 0>>

\* the clipIds of DigestClip rows
ClipsIn(rows) == {row[1] : row \in rows}

Range(s) == {s[i] : i \in 1..Len(s)}

\* the ways to list a set of Clip ids in an array
Orderings(S) ==
  {f \in [1..Cardinality(S) -> S] : \A i, j \in 1..Cardinality(S) : f[i] = f[j] => i = j}

\* orderBy relevanceScore desc: a Clip of an earlier analysis run, and within a
\* run a Clip of a smaller index, stands for the higher score
HigherScore(x, y) == x[1] < y[1] \/ (x[1] = y[1] /\ x[2] <= y[2])

RECURSIVE ByScore(_)
ByScore(S) ==
  IF S = {} THEN <<>>
  ELSE LET c == CHOOSE x \in S : \A y \in S : HigherScore(x, y)
       IN <<c>> \o ByScore(S \ {c})

(* ------------------------------------------- curationWorker, phases 4 and 5 *)
\* the selectedClipIds arrays of up to n entries an LLM answer may carry
Answers(ids, n) == UNION {[1..k -> ids] : k \in 0..n}

\* the filter of phase 4: the ids that are not candidates are dropped
ValidIds(answer, cand) == SelectSeq(answer, LAMBDA id : id \in Range(cand))

\* the fill loop: each candidate not yet selected is pushed, and the loop is left
\* once min ids are selected
RECURSIVE FillLoop(_, _, _)
FillLoop(sel, rest, min) ==
  IF rest = <<>> THEN sel
  ELSE LET s == IF Head(rest) \notin Range(sel) THEN Append(sel, Head(rest)) ELSE sel
       IN IF Len(s) >= min THEN s ELSE FillLoop(s, Tail(rest), min)

\* the fill loop left out
CurationFillNone(sel, cand, min) == sel

\* "Ensure we have enough clips"
CurationFill(sel, cand, min) == IF Len(sel) < min THEN FillLoop(sel, cand, min) ELSE sel

\* phase 4 as a whole: curationResult.selectedClipIds after it
CurationSelection(answer, cand, min) == CurationFill(ValidIds(answer, cand), cand, min)

(* ---------------------------------------------------------- curationWorker *)
\* cand: the candidates by score; sel: selectedClipIds; i: the insert loop's index
IdleC == [pc |-> "idle", cand |-> <<>>, sel |-> <<>>, i |-> 0]

CEnded == {"notfound", "done", "threw"}

\* the Orchestrator's own run ends with the inline handler's exception
OThrew(w) == IF w = "inline" THEN [orun EXCEPT !.pc = "threw"] ELSE orun

\* a catch block that throws the error on without the status update
CCatchNoStatus(w) ==
  /\ crun' = [crun EXCEPT ![w] = [IdleC EXCEPT !.pc = "threw"]]
  /\ cjob' = JobAfter(cjob, w = "queue", "threw")
  /\ orun' = OThrew(w)
  /\ UNCHANGED digest

\* the catch block: status "failed", then the error is thrown on
CCatch(w) ==
  /\ digest' = [digest EXCEPT !.status = "failed"]
  /\ crun' = [crun EXCEPT ![w] = [IdleC EXCEPT !.pc = "threw"]]
  /\ cjob' = JobAfter(cjob, w = "queue", "threw")
  /\ orun' = OThrew(w)

\* digest.findUnique ("Digest not found" is thrown before the try block), then
\* phase 1: update status "curating"
CBegin(w, job) ==
  IF digest.status = "none"
    THEN /\ crun' = [crun EXCEPT ![w] = [IdleC EXCEPT !.pc = "notfound"]]
         /\ cjob' = JobAfter(job, w = "queue", "threw")
         /\ orun' = OThrew(w)
         /\ UNCHANGED digest
    ELSE /\ digest' = [digest EXCEPT !.status = "curating"]
         /\ crun' = [crun EXCEPT ![w] = [IdleC EXCEPT !.pc = "curating"]]
         /\ cjob' = job
         /\ UNCHANGED orun

\* the curation Worker takes the waiting job
CDeliver ==
  /\ cjob.st = "waiting"
  /\ crun["queue"].pc \in CEnded \cup {"idle"}
  /\ CBegin("queue", [cjob EXCEPT !.st = "active"])
  /\ UNCHANGED <<evars, djob, drun, fvars>>

\* phase 5 of the Orchestrator: curationWorker called directly
CInline ==
  /\ orun.pc = "curation"
  /\ crun["inline"].pc = "idle"
  /\ CBegin("inline", cjob)
  /\ UNCHANGED <<evars, djob, drun, fvars>>

\* phase 2: clip.findMany over the Digest's episodes, by relevanceScore; no
\* candidate is an error
CFetch(w) ==
  /\ crun[w].pc = "curating"
  /\ IF AllClips = {}
       THEN CCatch(w)
       ELSE /\ crun' = [crun EXCEPT ![w].pc = "fetched", ![w].cand = ByScore(AllClips)]
            /\ UNCHANGED <<digest, cjob, orun>>
  /\ UNCHANGED <<evars, djob, drun, fvars>>

\* phases 3 to 5: the LLM call and the validation of its answer, then
\* digestClip.deleteMany; an LLM or parse error goes to the catch block
CSelect(w) ==
  /\ crun[w].pc = "fetched"
  /\ \/ \E answer \in Answers(Range(crun[w].cand) \cup {NoClip}, Len(crun[w].cand)) :
          /\ digest' = [digest EXCEPT !.clips = {}]
          /\ crun' = [crun EXCEPT ![w].pc = "inserting", ![w].cand = <<>>,
                        ![w].sel = CurationSelection(answer, crun[w].cand, TargetClipMin)]
          /\ UNCHANGED <<cjob, orun>>
     \/ CCatch(w)
  /\ UNCHANGED <<evars, djob, drun, fvars>>

\* one digestClip.create of the insert loop, with order i; a Clip that is gone
\* (foreign key) or a row (digestId, clipId) that is there already (unique
\* index) is an error
CInsert(w) ==
  /\ crun[w].pc = "inserting"
  /\ crun[w].i < Len(crun[w].sel)
  /\ LET c == crun[w].sel[crun[w].i + 1]
     IN IF c \in AllClips /\ c \notin ClipsIn(digest.clips)
          THEN /\ digest' = [digest EXCEPT !.clips = @ \cup {<<c, crun[w].i>>}]
               /\ crun' = [crun EXCEPT ![w].i = @ + 1]
               /\ UNCHANGED <<cjob, orun>>
          ELSE CCatch(w)
  /\ UNCHANGED <<evars, djob, drun, fvars>>

\* phase 6: update status "pending" and narratorScript null, return
CFinish(w) ==
  /\ crun[w].pc = "inserting"
  /\ crun[w].i = Len(crun[w].sel)
  /\ digest' = [digest EXCEPT !.status = "pending", !.script = FALSE, !.transitions = 0]
  /\ crun' = [crun EXCEPT ![w] = [IdleC EXCEPT !.pc = "done"]]
  /\ cjob' = JobAfter(cjob, w = "queue", "ok")
  /\ orun' = IF w = "inline" THEN [orun EXCEPT !.pc = "assembly"] ELSE orun
  /\ UNCHANGED <<evars, djob, drun, fvars>>

(* ------------------------------------------------------------ stitchDigest *)
\* the sequence loop's body for clip i (from 0): the clip, then transition i if
\* there is one
StitchPush(sequence, i, transitions) ==
  IF i < transitions
    THEN sequence \o <<<<"clip", i>>, <<"transition", i>>>>
    ELSE Append(sequence, <<"clip", i>>)

\* the size of a 128 kbps MP3 per second of audio: 128 * 1024 / 8
BytesPerSecond == 16384

\* Math.round(stats.size / (128 * 1024 / 8))
EstimatedDuration(size) == (2 * size + BytesPerSecond) \div (2 * BytesPerSecond)

\* sizes of the stitched file: just under and just at half a second of audio
StitchedSizes == {BytesPerSecond \div 2 - 1, BytesPerSecond \div 2}

(* ------------------------------------------------------------ digestWorker *)
\* snap: the DigestClip rows read at the start; from: the status read at the
\* start; wrote: the statuses this run has written; skipped: the stored
\* narratorScript is reused; tts: the job carries existingTTSPaths
IdleD ==
  [pc |-> "idle", snap |-> {}, from |-> "none", wrote |-> <<>>, skipped |-> FALSE,
   tts |-> FALSE]

DEnded == {"notfound", "nopodcast", "done", "threw"}

\* the catch block: status "failed", then the error is thrown on
DCatch(w) ==
  /\ digest' = [digest EXCEPT !.status = "failed"]
  /\ drun' = [drun EXCEPT ![w] = [IdleD EXCEPT !.pc = "threw"]]
  /\ djob' = JobAfter(djob, w = "queue", "threw")
  /\ orun' = OThrew(w)

\* the checks that precede the try block, on the rows just read
DCheck(d) ==
  IF d.status = "none" THEN "notfound"
  ELSE IF ~d.podcast THEN "nopodcast"
  ELSE "begun"

\* digest.findUnique with its digestClips, podcast.findUnique, and their checks;
\* with skipScriptGeneration and a stored narratorScript phase 1 only loads it
DBegin(w, job, skipScriptGeneration, existingTTSPaths) ==
  LET pc == DCheck(digest)
      skipped == skipScriptGeneration /\ digest.script
  IN /\ drun' = [drun EXCEPT ![w] =
                   IF pc = "begun"
                     THEN [pc |-> IF skipped THEN "scripted" ELSE "begun",
                           snap |-> digest.clips, from |-> digest.status,
                           wrote |-> <<>>, skipped |-> skipped,
                           tts |-> existingTTSPaths]
                     ELSE [IdleD EXCEPT !.pc = pc]]
     /\ djob' = JobAfter(job, w = "queue", IF pc = "begun" THEN "running" ELSE "threw")
     /\ orun' = IF pc = "begun" THEN orun ELSE OThrew(w)

\* the digest Worker takes the waiting job; the jobs of POST /api/digests carry
\* neither skipScriptGeneration nor existingTTSPaths
DDeliver ==
  /\ djob.st = "waiting"
  /\ drun["queue"].pc \in DEnded \cup {"idle"}
  /\ DBegin("queue", [djob EXCEPT !.st = "active"], FALSE, FALSE)
  /\ UNCHANGED <<evars, digest, cjob, crun, fvars>>

\* the digest Worker takes a job whose data carries skipScriptGeneration or
\* existingTTSPaths (DigestJobData)
DDeliverResume(skipScriptGeneration, existingTTSPaths) ==
  /\ skipScriptGeneration \/ existingTTSPaths
  /\ djob.st = "waiting"
  /\ drun["queue"].pc \in DEnded \cup {"idle"}
  /\ DBegin("queue", [djob EXCEPT !.st = "active"], skipScriptGeneration, existingTTSPaths)
  /\ UNCHANGED <<evars, digest, cjob, crun, fvars>>

\* phase 6 of the Orchestrator: digestWorker called directly
DInline ==
  /\ orun.pc = "assembly"
  /\ drun["inline"].pc = "idle"
  /\ DBegin("inline", djob, FALSE, FALSE)
  /\ UNCHANGED <<evars, digest, cjob, crun, fvars>>

\* phase 1: update status "generating_script"
DSetGeneratingScript(w) ==
  /\ drun[w].pc = "begun"
  /\ digest' = [digest EXCEPT !.status = "generating_script"]
  /\ drun' = [drun EXCEPT ![w].pc = "script",
                          ![w].wrote = Append(@, "generating_script")]
  /\ UNCHANGED <<evars, orun, cjob, djob, crun, fvars>>

\* generateNarratorScripts (intro, a transitions array and outro are all it
\* checks), then the update that saves narratorScript
DScript(w) ==
  /\ drun[w].pc = "script"
  /\ \/ \E t \in 0..MaxTransitions :
          /\ digest' = [digest EXCEPT !.script = TRUE, !.transitions = t]
          /\ drun' = [drun EXCEPT ![w].pc = "scripted"]
          /\ UNCHANGED <<djob, orun>>
     \/ DCatch(w)
  /\ UNCHANGED <<evars, cjob, crun, fvars>>

\* phase 2 with its status update left out
DSetGeneratingAudioSkipped(w) ==
  /\ drun[w].pc = "scripted"
  /\ ~drun[w].tts
  /\ drun' = [drun EXCEPT ![w].pc = "audio"]
  /\ UNCHANGED <<evars, orun, digest, cjob, djob, crun, fvars>>

\* phase 2 without existingTTSPaths: update status "generating_audio"
DSetGeneratingAudio(w) ==
  /\ drun[w].pc = "scripted"
  /\ ~drun[w].tts
  /\ digest' = [digest EXCEPT !.status = "generating_audio"]
  /\ drun' = [drun EXCEPT ![w].pc = "audio",
                          ![w].wrote = Append(@, "generating_audio")]
  /\ UNCHANGED <<evars, orun, cjob, djob, crun, fvars>>

\* generateNarratorAudio, or the check of the existingTTSPaths files, and phase
\* 3, extractClipAudio of every clip read at the start, then phase 4: update
\* status "stitching"
DAudio(w) ==
  /\ drun[w].pc = (IF drun[w].tts THEN "scripted" ELSE "audio")
  /\ \/ /\ digest' = [digest EXCEPT !.status = "stitching"]
        /\ drun' = [drun EXCEPT ![w].pc = "stitching",
                                ![w].wrote = Append(@, "stitching")]
        /\ UNCHANGED <<djob, orun>>
     \/ DCatch(w)
  /\ UNCHANGED <<evars, cjob, crun, fvars>>

\* stitchDigest and the copy of its output to the published file, then phase 5:
\* update status "ready" with the audioUrl and the estimated duration, return
DStitch(w) ==
  /\ drun[w].pc = "stitching"
  /\ \/ \E size \in StitchedSizes :
          /\ digest' = [digest EXCEPT !.status = "ready", !.audio = TRUE,
                                      !.duration = EstimatedDuration(size)]
          /\ drun' = [drun EXCEPT ![w].pc = "done", ![w].snap = {},
                                  ![w].wrote = Append(@, "ready")]
          /\ djob' = JobAfter(djob, w = "queue", "ok")
          /\ orun' = IF w = "inline" THEN [orun EXCEPT !.pc = "done"] ELSE orun
     \/ DCatch(w)
  /\ UNCHANGED <<evars, cjob, crun, fvars>>

(* ------------------------------------------------------- Digest API routes *)
\* POST /api/digests: the clips of the request exist; digest.create with status
\* "pending" and the DigestClip rows in the order of the request's clipIds, then
\* the job "digest-{id}" is added
ApiCreateDigest(cs, podcastOk) ==
  /\ digest.status = "none"
  /\ cs # {}
  /\ cs \subseteq AllClips
  /\ \E clipIds \in Orderings(cs) :
       digest' = [NoDigest EXCEPT !.status = "pending",
                    !.clips = {<<clipIds[i], i - 1>> : i \in 1..Len(clipIds)},
                    !.podcast = podcastOk,
                    !.episodeIds = {e \in Episodes : clips[e] \cap cs # {}}]
  /\ djob' = QueueAdd(djob)
  /\ UNCHANGED <<evars, orun, cjob, crun, drun, fvars>>

\* POST /api/digests/:id/curate: the Digest exists and all its episodes are
\* analyzed; the job "curation-{id}" is added
ApiCurate ==
  /\ digest.status # "none"
  /\ \A e \in Episodes : status[e] = "analyzed"
  /\ cjob' = QueueAdd(cjob)
  /\ UNCHANGED <<evars, orun, digest, djob, crun, drun, fvars>>

(* ---------------------------------------- orchestratorWorker, phases 5 and 6 *)
\* a digest.create over the in-window episodes, whatever their statuses
OCreateDigestUnchecked ==
  /\ orun.pc = "polled"
  /\ digest.status = "none"
  /\ digest' = [NoDigest EXCEPT !.status = "curating", !.podcast = TRUE,
                                !.episodeIds = Episodes]
  /\ orun' = [orun EXCEPT !.pc = "curation"]
  /\ UNCHANGED <<evars, cjob, djob, crun, drun, fvars>>

\* the statuses are read again; with no analyzed episode the run ends with an
\* error, else digest.create with status "curating" and the analyzed episodes
OCreateDigest ==
  /\ orun.pc = "polled"
  /\ digest.status = "none"
  /\ LET analyzedEpisodeIds == {e \in Episodes : status[e] = "analyzed"}
     IN IF analyzedEpisodeIds # {}
          THEN /\ digest' = [NoDigest EXCEPT !.status = "curating", !.podcast = TRUE,
                                             !.episodeIds = analyzedEpisodeIds]
               /\ orun' = [orun EXCEPT !.pc = "curation"]
          ELSE /\ orun' = [orun EXCEPT !.pc = "failed"]
               /\ UNCHANGED digest
  /\ UNCHANGED <<evars, cjob, djob, crun, drun, fvars>>

(* ---------------------------------------- the handler functions on their own *)
\* phases 4 and 5 of curationWorker for one answer of the LLM: cand are the
\* candidates by score, rows the DigestClip rows <<clipId, order>>
NoPick ==
  [pc |-> "idle", cand |-> <<>>, answer |-> <<>>, min |-> 0, max |-> 0, sel |-> <<>>,
   i |-> 0, rows |-> {}]

\* the evaluations explored: candidates 1..n by descending score, an answer over
\* the ids 0..MaxPickCandidates (0 and the ids above n name no candidate), and a
\* targetClipCount
PickInputs ==
  {[NoPick EXCEPT !.pc = "fetched", !.cand = [k \in 1..n |-> k], !.answer = answer,
                  !.min = min, !.max = max] :
     n \in 1..MaxPickCandidates, answer \in Answers(0..MaxPickCandidates, MaxAnswer),
     min \in 1..MaxTargetMin, max \in MaxTargetMin..MaxTargetMax}

\* phase 4, then digestClip.deleteMany
PickSelect ==
  /\ pick.pc = "fetched"
  /\ pick' = [pick EXCEPT !.pc = "inserting", !.rows = {},
                          !.sel = CurationSelection(pick.answer, pick.cand, pick.min)]
  /\ UNCHANGED <<evars, orun, dvars, stitch, save, merge, prep, rvars>>

\* one digestClip.create of the insert loop; a row (digestId, clipId) that is
\* there already (unique index) is an error
PickInsert ==
  /\ pick.pc = "inserting"
  /\ pick.i < Len(pick.sel)
  /\ pick' = IF pick.sel[pick.i + 1] \notin ClipsIn(pick.rows)
               THEN [pick EXCEPT !.rows = @ \cup {<<pick.sel[pick.i + 1], pick.i>>},
                                 !.i = @ + 1]
               ELSE [pick EXCEPT !.pc = "threw"]
  /\ UNCHANGED <<evars, orun, dvars, stitch, save, merge, prep, rvars>>

\* phase 6: the run returns
PickFinish ==
  /\ pick.pc = "inserting"
  /\ pick.i = Len(pick.sel)
  /\ pick' = [pick EXCEPT !.pc = "done"]
  /\ UNCHANGED <<evars, orun, dvars, stitch, save, merge, prep, rvars>>

\* the sequence loop of stitchDigest over clips clip files and transitions
\* transition files
NoStitch == [pc |-> "idle", clips |-> 0, transitions |-> 0, i |-> 0, sequence |-> <<>>]

StitchInputs ==
  {[NoStitch EXCEPT !.pc = "called", !.clips = n, !.transitions = t] :
     n \in 0..MaxStitchClips, t \in 0..MaxStitchTransitions}

\* const sequence = [introPath]
StitchIntro ==
  /\ stitch.pc = "called"
  /\ stitch' = [stitch EXCEPT !.pc = "loop", !.sequence = <<<<"intro", 0>>>>]
  /\ UNCHANGED <<evars, orun, dvars, pick, save, merge, prep, rvars>>

\* one turn of the loop over clipPaths
StitchClip ==
  /\ stitch.pc = "loop"
  /\ stitch.i < stitch.clips
  /\ stitch' = [stitch EXCEPT !.i = @ + 1,
                   !.sequence = StitchPush(@, stitch.i, stitch.transitions)]
  /\ UNCHANGED <<evars, orun, dvars, pick, save, merge, prep, rvars>>

\* sequence.push(outroPath), the sequence goes to concatenateClips
StitchOutro ==
  /\ stitch.pc = "loop"
  /\ stitch.i = stitch.clips
  /\ stitch' = [stitch EXCEPT !.pc = "done", !.sequence = Append(@, <<"outro", 0>>)]
  /\ UNCHANGED <<evars, orun, dvars, pick, save, merge, prep, rvars>>

\* phase 3 of analysisWorker for one parsed answer of the LLM: duration is the
\* duration of the Episode's transcript, answer the clips array of the answer,
\* rows the Clip rows of the Episode (id 0: a row an earlier run stored; id k: the
\* k-th row this run creates), prior the rows the Episode had before the run
NoSave ==
  [pc |-> "idle", duration |-> 0, answer |-> <<>>, i |-> 0, rows |-> <<>>,
   prior |-> <<>>]

\* the clips an LLM may name: any two numbers, before the audio, inside it or
\* past its end, in either order
ClipTimes == [startTime : -1..MaxClipTime, endTime : -1..MaxClipTime]

SaveAnswers ==
  UNION {[1..n -> ClipTimes] : n \in 0..MaxSaveClips}

\* the Clip rows of an Episode before the run: none, or one an earlier run stored
PriorRows ==
  {<<>>, <<[id |-> 0, startTime |-> 0, endTime |-> 1, duration |-> 1]>>}

SaveInputs ==
  {[NoSave EXCEPT !.pc = "parsed", !.duration = d, !.answer = a, !.rows = p,
                  !.prior = p] :
     d \in 1..MaxClipTime, a \in SaveAnswers, p \in PriorRows}

\* clip.deleteMany({ where: { episodeId } })
SaveDelete ==
  /\ save.pc = "parsed"
  /\ save' = [save EXCEPT !.pc = "inserting", !.rows = <<>>]
  /\ UNCHANGED <<evars, orun, dvars, pick, stitch, merge, prep, rvars>>

\* one turn of the loop over analysisResult.clips: clip.create with the times of
\* the answer and duration = endTime - startTime; a create the store rejects
\* throws into the catch block (status "failed", rethrow)
SaveInsert ==
  /\ save.pc = "inserting"
  /\ save.i < Len(save.answer)
  /\ \E ok \in BOOLEAN :
       LET clip == save.answer[save.i + 1]
       IN save' = IF ok
                    THEN [save EXCEPT !.i = @ + 1,
                            !.rows = Append(@, [id |-> save.i + 1,
                                                startTime |-> clip.startTime,
                                                endTime |-> clip.endTime,
                                                duration |-> clip.endTime - clip.startTime])]
                    ELSE [save EXCEPT !.pc = "failed"]
  /\ UNCHANGED <<evars, orun, dvars, pick, stitch, merge, prep, rvars>>

\* episode.update({ status: "analyzed" })
SaveFinish ==
  /\ save.pc = "inserting"
  /\ save.i = Len(save.answer)
  /\ save' = [save EXCEPT !.pc = "analyzed"]
  /\ UNCHANGED <<evars, orun, dvars, pick, stitch, merge, prep, rvars>>

(* ---------------------------------------------------- splitAudioIntoChunks *)
Min(a, b) == IF a <= b THEN a ELSE b
Max(a, b) == IF a >= b THEN a ELSE b

\* the while loop of splitAudioIntoChunks from currentTime on: one window per
\* turn, currentTime += targetChunkDurationSeconds
RECURSIVE SplitLoop(_, _, _, _, _)
SplitLoop(totalDuration, target, overlap, currentTime, chunks) ==
  IF currentTime < totalDuration
    THEN LET chunkStart == Max(0, currentTime - overlap)
             chunkEnd == Min(totalDuration, currentTime + target + overlap)
         IN SplitLoop(totalDuration, target, overlap, currentTime + target,
                      Append(chunks, [index |-> Len(chunks), startTime |-> chunkStart,
                                      endTime |-> chunkEnd,
                                      duration |-> chunkEnd - chunkStart]))
    ELSE chunks

\* the chunks of an audio file of totalDuration seconds
SplitChunks(totalDuration, target, overlap) ==
  SplitLoop(totalDuration, target, overlap, 0, <<>>)

(* ---------------------------------------------------- mergeTranscriptChunks *)
\* the segments an STT provider answers for a file of d seconds: times relative
\* to the start of the file, in ascending order, one after the other
Spans(d) == {sp \in [start : 0..d, end : 0..d] : sp.start < sp.end}

FileSegments(d) ==
  {s \in UNION {[1..n -> Spans(d)] : n \in 0..MaxSegments} :
     \A k \in 1..(Len(s) - 1) : s[k].end <= s[k + 1].start}

\* the segments of the answer for file c, the text of a segment standing for
\* the words spoken in it
Tagged(s, c) ==
  [k \in 1..Len(s) |-> [start |-> s[k].start, end |-> s[k].end, text |-> <<c, k>>]]

\* transcript.segments.map(...) of mergeTranscriptChunks
Unshifted(segments, chunk) == segments

Shifted(segments, chunk) ==
  [k \in 1..Len(segments) |->
     [start |-> segments[k].start + chunk.startTime,
      end |-> segments[k].end + chunk.startTime,
      text |-> segments[k].text]]

\* allSegments.sort((a, b) => a.start - b.start): Array.prototype.sort is stable
Unsorted(segments) == segments

RECURSIVE SortByStart(_)
SortByStart(segments) ==
  IF Len(segments) = 0
    THEN segments
    ELSE LET front == SortByStart(SubSeq(segments, 1, Len(segments) - 1))
             x == segments[Len(segments)]
             n == Cardinality({k \in 1..Len(front) : front[k].start <= x.start})
         IN SubSeq(front, 1, n) \o <<x>> \o SubSeq(front, n + 1, Len(front))

\* one Transcription run from `transcribing` on: chunks are the files handed to
\* the STT provider on the chunked path, results[c] the segments it answered
\* for file c (results[1] those of the whole file on the single-file path),
\* status the Episode's status, written whether the Episode has a transcript and
\* stored the segments of that transcript
NoMerge ==
  [pc |-> "idle", chunks |-> <<>>, results |-> <<>>, i |-> 0, allSegments |-> <<>>,
   status |-> "transcribing", written |-> FALSE, stored |-> <<>>]

SingleInputs ==
  {[NoMerge EXCEPT !.pc = "single", !.results = <<Tagged(s, 1)>>] :
     s \in UNION {FileSegments(d) : d \in 1..MaxMergeDuration}}

ChunkResults(chunks) ==
  {[c \in 1..Len(chunks) |-> Tagged(r[c], c)] :
     r \in {q \in [1..Len(chunks) -> FileSegments(MaxMergeDuration)] :
              \A c \in 1..Len(chunks) : q[c] \in FileSegments(chunks[c].duration)}}

ChunkedInputs ==
  UNION {{[NoMerge EXCEPT !.pc = "merging", !.chunks = SplitChunks(d, ChunkTarget, ChunkOverlap),
                          !.results = r] :
            r \in ChunkResults(SplitChunks(d, ChunkTarget, ChunkOverlap))} :
         d \in 1..MaxMergeDuration}

MergeInputs == SingleInputs \cup ChunkedInputs

\* one turn of the loop of mergeTranscriptChunks over the chunks
MergeChunk ==
  /\ merge.pc = "merging"
  /\ merge.i < Len(merge.chunks)
  /\ merge' = [merge EXCEPT !.i = @ + 1,
                 !.allSegments = @ \o Shifted(merge.results[merge.i + 1],
                                              merge.chunks[merge.i + 1])]
  /\ UNCHANGED <<evars, orun, dvars, pick, stitch, save, prep, rvars>>

\* the sort that ends mergeTranscriptChunks
MergeSort ==
  /\ merge.pc = "merging"
  /\ merge.i = Len(merge.chunks)
  /\ merge' = [merge EXCEPT !.pc = "merged", !.allSegments = SortByStart(@)]
  /\ UNCHANGED <<evars, orun, dvars, pick, stitch, save, prep, rvars>>

\* episode.update({ status: "transcribed", transcript }) on the chunked path
MergePersist ==
  /\ merge.pc = "merged"
  /\ merge' = [merge EXCEPT !.pc = "persisted", !.status = "transcribed",
                            !.written = TRUE, !.stored = merge.allSegments]
  /\ UNCHANGED <<evars, orun, dvars, pick, stitch, save, prep, rvars>>

\* episode.update({ status: "transcribed", transcript }) on the single-file
\* path: the segments are those of the provider's answer
SinglePersist ==
  /\ merge.pc = "single"
  /\ merge' = [merge EXCEPT !.pc = "persisted", !.status = "transcribed",
                            !.written = TRUE, !.stored = merge.results[1]]
  /\ UNCHANGED <<evars, orun, dvars, pick, stitch, save, prep, rvars>>

\* the catch block of transcriptionWorker: the provider (or ffmpeg) threw before
\* the transcript was stored
MergeCatch ==
  /\ merge.pc \in {"single", "merging", "merged"}
  /\ merge' = [merge EXCEPT !.pc = "threw", !.status = "failed"]
  /\ UNCHANGED <<evars, orun, dvars, pick, stitch, save, prep, rvars>>

\* the catch block of analysisWorker, for a run on the transcribed Episode
MergeAnalysisCatch ==
  /\ merge.pc \in {"persisted", "reset"}
  /\ merge.status = "transcribed"
  /\ merge' = [merge EXCEPT !.pc = "analysis threw", !.status = "failed"]
  /\ UNCHANGED <<evars, orun, dvars, pick, stitch, save, prep, rvars>>

\* POST /api/episodes/:id/analyze, case "failed": back to transcribed if the
\* Episode has a transcript, no write if it has none
MergeApiAnalyze ==
  /\ merge.status = "failed"
  /\ merge' = IF merge.written
               THEN [merge EXCEPT !.pc = "reset", !.status = "transcribed"]
               ELSE merge
  /\ UNCHANGED <<evars, orun, dvars, pick, stitch, save, prep, rvars>>

(* ---------------------------------------------------- prepareAudioForWhisper *)
\* one call of prepareAudioForWhisper(inputPath) or of splitAudioIntoChunks(path,
\* { targetChunkDurationSeconds: target, overlapSeconds: overlap }): the input
\* file has fileSize bytes and lasts duration seconds, files are the audio files
\* on disk, chunks is the result
NoPrep ==
  [pc |-> "idle", call |-> "none", fileSize |-> 0, duration |-> 0, files |-> {},
   path |-> "input", target |-> 0, overlap |-> 0, chunks |-> <<>>]

AudioDurations == {600 * k : k \in 1..MaxAudioTenMinutes}

\* the worker's call (and the script's): a file at or over the provider's limit
PrepareInputs ==
  {[NoPrep EXCEPT !.pc = "called", !.call = "prepareAudioForWhisper", !.fileSize = size,
                  !.duration = d, !.files = {"input"}] :
     size \in {WHISPER_MAX_FILE_SIZE, WHISPER_MAX_FILE_SIZE + 1}, d \in AudioDurations}

\* a call of splitAudioIntoChunks on a file that exists (scripts/test-chunking),
\* with the default window or prepareAudioForWhisper's
SplitInputs ==
  {[NoPrep EXCEPT !.pc = "split", !.call = "splitAudioIntoChunks", !.duration = d,
                  !.fileSize = WHISPER_MAX_FILE_SIZE + 1, !.files = {"input"},
                  !.target = t, !.overlap = DefaultOverlapSeconds] :
     d \in AudioDurations, t \in {DEFAULT_CHUNK_DURATION_SECONDS, PrepareChunkSeconds}}

PrepInputs == PrepareInputs \cup SplitInputs

SingleChunk(path, duration) ==
  <<[index |-> 0, path |-> path, startTime |-> 0, endTime |-> duration,
     duration |-> duration]>>

\* the chunk files of a split of path
WithPath(chunks, path) ==
  [k \in 1..Len(chunks) |->
     [index |-> chunks[k].index, path |-> <<path, "chunk", chunks[k].index>>,
      startTime |-> chunks[k].startTime, endTime |-> chunks[k].endTime,
      duration |-> chunks[k].duration]]

\* if (fileSize <= WHISPER_MAX_FILE_SIZE) return the input as the one chunk
PrepSize ==
  /\ prep.pc = "called"
  /\ prep' = IF prep.fileSize <= WHISPER_MAX_FILE_SIZE
               THEN [prep EXCEPT !.pc = "done",
                                 !.chunks = SingleChunk("input", prep.duration)]
               ELSE [prep EXCEPT !.pc = "compress"]
  /\ UNCHANGED <<evars, orun, dvars, pick, stitch, save, merge, rvars>>

\* tryCompressForWhisper writes compressed.mp3 at 64 kbit/s; if it fits, it is
\* the one chunk
PrepCompress ==
  /\ prep.pc = "compress"
  /\ prep' = IF CompressedBytesPerSecond * prep.duration <= WHISPER_MAX_FILE_SIZE
               THEN [prep EXCEPT !.pc = "done", !.files = @ \cup {"compressed"},
                                 !.chunks = SingleChunk("compressed", prep.duration)]
               ELSE [prep EXCEPT !.pc = "cleanup", !.files = @ \cup {"compressed"}]
  /\ UNCHANGED <<evars, orun, dvars, pick, stitch, save, merge, rvars>>

\* fs.promises.unlink(compressedPath), then the call of
\* splitAudioIntoChunks(compressedPath, outputDir, { 25 * 60 })
PrepUnlink ==
  /\ prep.pc = "cleanup"
  /\ prep' = [prep EXCEPT !.pc = "split", !.files = @ \ {"compressed"},
                          !.path = "compressed", !.target = PrepareChunkSeconds,
                          !.overlap = DefaultOverlapSeconds]
  /\ UNCHANGED <<evars, orun, dvars, pick, stitch, save, merge, rvars>>

\* splitAudioIntoChunks(path): getAudioInfo runs ffprobe on the file and rejects
\* when ffprobe exits with an error, as it does for a file that is not there
PrepSplit ==
  /\ prep.pc = "split"
  /\ prep' = IF prep.path \in prep.files
               THEN [prep EXCEPT !.pc = "done",
                       !.chunks = WithPath(SplitChunks(prep.duration, prep.target,
                                                       prep.overlap), prep.path)]
               ELSE [prep EXCEPT !.pc = "threw"]
  /\ UNCHANGED <<evars, orun, dvars, pick, stitch, save, merge, rvars>>

(* ------------------------------------------------------------- LLM client *)
\* LLMClient.complete and callProvider (packages/ai llm client)

LLMProviders == {"openrouter", "openai"}

\* the logical names a caller passes: three of MODEL_MAPPINGS, two that are not
\* in it (one with a provider prefix), and "" for an absent options.model
ModelNames == {"", "gpt-5-mini", "claude-sonnet", "openai/gpt-4o", "llama-3", "meta/llama-3"}

DefaultModel == "gpt-5-mini"

MODEL_MAPPINGS ==
  [m \in {"gpt-5-mini", "claude-sonnet", "openai/gpt-4o"} |->
     CASE m = "gpt-5-mini" ->
            [openrouter |-> "openai/gpt-5-mini", openai |-> "gpt-5-mini"]
       [] m = "claude-sonnet" ->
            [openrouter |-> "anthropic/claude-3.5-sonnet",
             openai |-> "claude-3-5-sonnet-20241022"]
       [] m = "openai/gpt-4o" ->
            [openrouter |-> "openai/gpt-4o", openai |-> "gpt-4o"]]

\* model.includes("/"), model.split("/").pop() and `openai/${model}` on the
\* names of ModelNames that have no mapping
IncludesSlash(model) == model = "meta/llama-3"

LastPart(model) == IF model = "meta/llama-3" THEN "llama-3" ELSE model

OpenAIPrefixed(model) == IF model = "llama-3" THEN "openai/llama-3" ELSE model

getProviderModelName(model, provider) ==
  IF model \in DOMAIN MODEL_MAPPINGS THEN MODEL_MAPPINGS[model][provider]
  ELSE IF provider = "openrouter" /\ ~IncludesSlash(model) THEN OpenAIPrefixed(model)
  ELSE IF provider = "openai" /\ IncludesSlash(model) THEN LastPart(model)
  ELSE model

NoLlm ==
  [pc |-> "idle", provider |-> "openai", fallbackToOpenAI |-> FALSE,
   openaiApiKey |-> FALSE, model |-> "", requests |-> <<>>, errors |-> 0]

\* a client configuration (createLLMClient reads it from the environment) and
\* one call of complete
LlmInputs ==
  {[NoLlm EXCEPT !.pc = "called", !.provider = p, !.fallbackToOpenAI = f,
                 !.openaiApiKey = k, !.model = m] :
     p \in LLMProviders, f \in BOOLEAN, k \in BOOLEAN, m \in ModelNames}

\* const model = options.model || this.defaultModel
LogicalModel(l) == IF l.model = "" THEN DefaultModel ELSE l.model

\* the one fetch of callProvider(provider, model, options, isFallback)
ProviderRequest(l, provider, isFallback) ==
  [provider |-> provider,
   model |-> getProviderModelName(LogicalModel(l), provider),
   apiKey |-> IF isFallback /\ l.openaiApiKey THEN "openaiApiKey" ELSE "apiKey"]

\* try { return await this.callProvider(this.config.provider, model, options) }:
\* the request is answered with a completion, or with an error or no content
LlmCall ==
  /\ llm.pc = "called"
  /\ \E ok \in BOOLEAN :
       llm' = [llm EXCEPT !.pc = IF ok THEN "returned" ELSE "catch",
                          !.requests = Append(@, ProviderRequest(llm, llm.provider, FALSE)),
                          !.errors = IF ok THEN @ ELSE @ + 1]
  /\ UNCHANGED <<evars, orun, dvars, pvars, poll, dl, tfiles, dfiles>>

\* the catch block without its fallback: the error is thrown to the caller
LlmCatchRethrow ==
  /\ llm.pc = "catch"
  /\ llm' = [llm EXCEPT !.pc = "threw"]
  /\ UNCHANGED <<evars, orun, dvars, pvars, poll, dl, tfiles, dfiles>>

\* catch (error): one call of callProvider("openai", model, options, true) when
\* fallbackToOpenAI, provider === "openrouter" and openaiApiKey; throw otherwise
LlmCatch ==
  /\ llm.pc = "catch"
  /\ IF llm.fallbackToOpenAI /\ llm.provider = "openrouter" /\ llm.openaiApiKey
       THEN \E ok \in BOOLEAN :
              llm' = [llm EXCEPT !.pc = IF ok THEN "returned" ELSE "threw",
                                 !.requests = Append(@, ProviderRequest(llm, "openai", TRUE)),
                                 !.errors = IF ok THEN @ ELSE @ + 1]
       ELSE llm' = [llm EXCEPT !.pc = "threw"]
  /\ UNCHANGED <<evars, orun, dvars, pvars, poll, dl, tfiles, dfiles>>

(* ------------------------------------------------ waitForEpisodesAnalyzed *)
\* one call of waitForEpisodesAnalyzed with its clock: episodes the number of
\* episodeIds, elapsed = Date.now() - startTime in milliseconds (time passes in
\* sleep; the store and queue calls of a turn are taken as immediate), analyzed
\* and failed the counts of the last findMany
NoPoll == [pc |-> "idle", episodes |-> 0, elapsed |-> 0, analyzed |-> 0, failed |-> 0]

PollInputs ==
  {[NoPoll EXCEPT !.pc = "while", !.episodes = n] : n \in 1..MaxPollEpisodes}

\* a loop condition that never looks at the clock
PollWhileNoCeiling ==
  /\ poll.pc = "while"
  /\ poll' = [poll EXCEPT !.pc = "body"]
  /\ UNCHANGED <<evars, orun, dvars, pvars, llm, dl, tfiles, dfiles>>

\* while (Date.now() - startTime < MAX_POLL_TIME_MS); after the loop the
\* timeout warning and return
PollWhile ==
  /\ poll.pc = "while"
  /\ poll' = [poll EXCEPT !.pc = IF poll.elapsed < MAX_POLL_TIME_MS
                                   THEN "body" ELSE "timedout"]
  /\ UNCHANGED <<evars, orun, dvars, pvars, llm, dl, tfiles, dfiles>>

\* one turn: findMany, the counts by status (whatever the stages have written
\* by now), the analysis jobs for newly transcribed Episodes, and the exits
\* when none is processing
PollBody ==
  /\ poll.pc = "body"
  /\ \E a \in 0..MaxPollEpisodes, f \in 0..MaxPollEpisodes :
       /\ a + f <= poll.episodes
       /\ poll' = [poll EXCEPT !.analyzed = a, !.failed = f,
                               !.pc = IF a + f < poll.episodes THEN "sleep"
                                      ELSE IF a > 0 THEN "returned"
                                      ELSE "threw"]
  /\ UNCHANGED <<evars, orun, dvars, pvars, llm, dl, tfiles, dfiles>>

\* job.updateProgress, await sleep(POLL_INTERVAL_MS)
PollSleep ==
  /\ poll.pc = "sleep"
  /\ poll' = [poll EXCEPT !.pc = "while", !.elapsed = @ + POLL_INTERVAL_MS]
  /\ UNCHANGED <<evars, orun, dvars, pvars, llm, dl, tfiles, dfiles>>

(* ---------------------------------------------------------- downloadAudio *)
\* one call of downloadAudio, with time in units of ten minutes: timeout the
\* option of this name, attempt the loop counter, elapsed the time the current
\* attempt has run, timer whether the setTimeout of the attempt is pending
NoDl ==
  [pc |-> "idle", timeout |-> 0, attempt |-> 0, elapsed |-> 0, timer |-> FALSE]

DlInputs ==
  {[NoDl EXCEPT !.pc = "loop", !.timeout = t, !.attempt = 1] :
     t \in 1..DefaultTimeoutTenMinutes}

\* the head of an attempt: new AbortController, setTimeout(() => abort(), timeout),
\* fetch(url, { signal })
DlAttempt ==
  /\ dl.pc = "loop"
  /\ dl' = [dl EXCEPT !.pc = "fetch", !.elapsed = 0, !.timer = TRUE]
  /\ UNCHANGED <<evars, orun, dvars, pvars, llm, poll, tfiles, dfiles>>

\* ten minutes pass while the attempt waits for the response or reads the body;
\* a pending timer that is due fires first
DlTick ==
  /\ dl.pc \in {"fetch", "stream"}
  /\ dl.elapsed < MaxDlElapsed
  /\ ~(dl.timer /\ dl.elapsed >= dl.timeout)
  /\ dl' = [dl EXCEPT !.elapsed = @ + 1]
  /\ UNCHANGED <<evars, orun, dvars, pvars, llm, poll, tfiles, dfiles>>

\* the timer fires: controller.abort() rejects the pending fetch
DlAbort ==
  /\ dl.pc = "fetch"
  /\ dl.timer
  /\ dl.elapsed >= dl.timeout
  /\ dl' = [dl EXCEPT !.pc = "caught", !.timer = FALSE]
  /\ UNCHANGED <<evars, orun, dvars, pvars, llm, poll, tfiles, dfiles>>

\* fetch resolves with the response headers: clearTimeout(timeoutId), then the
\* check of response.ok and of response.body
DlResponse ==
  /\ dl.pc = "fetch"
  /\ \E ok \in BOOLEAN :
       dl' = [dl EXCEPT !.pc = IF ok THEN "stream" ELSE "caught", !.timer = FALSE]
  /\ UNCHANGED <<evars, orun, dvars, pvars, llm, poll, tfiles, dfiles>>

\* the loop of reader.read() and writeStream.write(value) comes to its end: the
\* body is complete and the result is returned, or a read rejects
DlBody ==
  /\ dl.pc = "stream"
  /\ \E ok \in BOOLEAN :
       dl' = [dl EXCEPT !.pc = IF ok THEN "returned" ELSE "caught"]
  /\ UNCHANGED <<evars, orun, dvars, pvars, llm, poll, tfiles, dfiles>>

\* catch: after the backoff the next attempt, or throw lastError after maxRetries
DlCatch ==
  /\ dl.pc = "caught"
  /\ dl' = IF dl.attempt < DownloadMaxRetries
             THEN [dl EXCEPT !.pc = "loop", !.attempt = @ + 1]
             ELSE [dl EXCEPT !.pc = "threw"]
  /\ UNCHANGED <<evars, orun, dvars, pvars, llm, poll, tfiles, dfiles>>

(* ------------------------------------- transcriptionWorker: temp files *)
\* the temp files of one run of transcriptionWorker: files are the files on
\* disk (DownloadFile, CompressedFile, <<"chunk", k>>: the k-th window file), tempFilePath and chunks the
\* handler's two variables of these names (chunks as the set of its paths),
\* error the step whose error reached the catch block
\* getTempPath(episodeId, "mp3") and compressed.mp3 of the chunk dir
DownloadFile == <<"download", 0>>
CompressedFile == <<"compressed", 0>>

NoTFiles ==
  [pc |-> "idle", fileSize |-> 0, duration |-> 0, files |-> {},
   tempFilePath |-> FALSE, chunks |-> {}, error |-> "none", threw |-> FALSE]

TFilesInputs ==
  {[NoTFiles EXCEPT !.pc = "start", !.fileSize = size, !.duration = d] :
     size \in {WHISPER_MAX_FILE_SIZE, WHISPER_MAX_FILE_SIZE + 1}, d \in AudioDurations}

\* what a call that writes file f and fails leaves behind: the file, in part,
\* or nothing
LeftBy(f, left) == IF left THEN {f} ELSE {}

\* the files of the windows splitAudioIntoChunks cuts
ChunkFiles(duration) ==
  {<<"chunk", k - 1>> : k \in 1..Len(SplitChunks(duration, PrepareChunkSeconds,
                                                 DefaultOverlapSeconds))}

\* update status "downloading", ensureTempDir, tempFilePath = getTempPath(...)
TfBegin ==
  /\ tfiles.pc = "start"
  /\ \E ok \in BOOLEAN :
       tfiles' = IF ok THEN [tfiles EXCEPT !.pc = "download", !.tempFilePath = TRUE]
                       ELSE [tfiles EXCEPT !.pc = "catch", !.error = "update"]
  /\ UNCHANGED <<evars, orun, dvars, pvars, llm, poll, dl, dfiles>>

\* downloadAudio(audioUrl, tempFilePath): it writes the file, or throws after
\* its attempts
TfDownload ==
  /\ tfiles.pc = "download"
  /\ \E ok \in BOOLEAN, left \in BOOLEAN :
       tfiles' = IF ok
                   THEN [tfiles EXCEPT !.pc = "downloaded", !.files = @ \cup {DownloadFile}]
                   ELSE [tfiles EXCEPT !.pc = "catch", !.error = "download",
                                       !.files = @ \cup LeftBy(DownloadFile, left)]
  /\ UNCHANGED <<evars, orun, dvars, pvars, llm, poll, dl, dfiles>>

\* requiresChunking = needsChunking(tempFilePath), update status "transcribing"
TfNeedsChunking ==
  /\ tfiles.pc = "downloaded"
  /\ tfiles' = [tfiles EXCEPT !.pc = IF tfiles.fileSize > WHISPER_MAX_FILE_SIZE
                                       THEN "prepare" ELSE "single"]
  /\ UNCHANGED <<evars, orun, dvars, pvars, llm, poll, dl, dfiles>>

\* whisper.transcribe(tempFilePath)
TfSingle ==
  /\ tfiles.pc = "single"
  /\ \E ok \in BOOLEAN :
       tfiles' = IF ok THEN [tfiles EXCEPT !.pc = "save"]
                       ELSE [tfiles EXCEPT !.pc = "catch", !.error = "transcribe"]
  /\ UNCHANGED <<evars, orun, dvars, pvars, llm, poll, dl, dfiles>>

\* chunks = await prepareAudioForWhisper(tempFilePath, chunkDir), up to the
\* outcome of tryCompressForWhisper: ffmpeg writes compressed.mp3 (if it fits it
\* is returned as the one chunk) or exits with an error and the call throws
\* before chunks is assigned
TfCompress ==
  /\ tfiles.pc = "prepare"
  /\ \E ok \in BOOLEAN, left \in BOOLEAN :
       tfiles' =
         IF ~ok
           THEN [tfiles EXCEPT !.pc = "catch", !.error = "compress",
                               !.files = @ \cup LeftBy(CompressedFile, left)]
         ELSE IF CompressedBytesPerSecond * tfiles.duration <= WHISPER_MAX_FILE_SIZE
           THEN [tfiles EXCEPT !.pc = "chunked", !.files = @ \cup {CompressedFile},
                               !.chunks = {CompressedFile}]
         ELSE [tfiles EXCEPT !.pc = "split", !.files = @ \cup {CompressedFile}]
  /\ UNCHANGED <<evars, orun, dvars, pvars, llm, poll, dl, dfiles>>

\* the rest of prepareAudioForWhisper: unlink(compressedPath), then
\* splitAudioIntoChunks(compressedPath, ...), which throws when ffprobe does not
\* find the file
TfSplit ==
  /\ tfiles.pc = "split"
  /\ LET after == tfiles.files \ {CompressedFile}
     IN tfiles' = IF CompressedFile \in after
                    THEN [tfiles EXCEPT !.pc = "chunked",
                            !.files = after \cup ChunkFiles(tfiles.duration),
                            !.chunks = ChunkFiles(tfiles.duration)]
                    ELSE [tfiles EXCEPT !.pc = "catch", !.error = "split", !.files = after]
  /\ UNCHANGED <<evars, orun, dvars, pvars, llm, poll, dl, dfiles>>

\* the loop of whisper.transcribe(chunk.path) and mergeTranscriptChunks
TfChunks ==
  /\ tfiles.pc = "chunked"
  /\ \E ok \in BOOLEAN :
       tfiles' = IF ok THEN [tfiles EXCEPT !.pc = "save"]
                       ELSE [tfiles EXCEPT !.pc = "catch", !.error = "transcribe"]
  /\ UNCHANGED <<evars, orun, dvars, pvars, llm, poll, dl, dfiles>>

\* phase 3: the update that saves the transcript, then return
TfSave ==
  /\ tfiles.pc = "save"
  /\ \E ok \in BOOLEAN :
       tfiles' = IF ok THEN [tfiles EXCEPT !.pc = "finally"]
                       ELSE [tfiles EXCEPT !.pc = "catch", !.error = "save"]
  /\ UNCHANGED <<evars, orun, dvars, pvars, llm, poll, dl, dfiles>>

\* catch: update status "failed", throw error
TfCatch ==
  /\ tfiles.pc = "catch"
  /\ tfiles' = [tfiles EXCEPT !.pc = "finally", !.threw = TRUE]
  /\ UNCHANGED <<evars, orun, dvars, pvars, llm, poll, dl, dfiles>>

\* finally: cleanupDownload(tempFilePath) if it is set, cleanupChunks(chunks)
\* if chunks is not empty
TfFinally ==
  /\ tfiles.pc = "finally"
  /\ tfiles' = [tfiles EXCEPT
                  !.pc = "ended",
                  !.files = (IF tfiles.tempFilePath THEN @ \ {DownloadFile} ELSE @)
                              \ tfiles.chunks]
  /\ UNCHANGED <<evars, orun, dvars, pvars, llm, poll, dl, dfiles>>

(* --------------------------------------------- digestWorker: temp files *)
\* the temp files of one run of digestWorker: clips the number of DigestClips,
\* transitions the length of scripts.transitions, existingTTSPaths whether the
\* job carries them, files the files the run has written into the work dir
\* (<<"narrator", j>>: intro, transitions, outro in the order they are
\* generated; <<"full", i>>: clip_i_full.mp3; <<"clip", i>>: clip_i.mp3;
\* FinalFile), tempDir and cleanupFiles the handler's variables
\* of these names, published whether the copy in the digests directory exists
\* final_digest.mp3 of the work dir
FinalFile == <<"final", 0>>

NoDFiles ==
  [pc |-> "idle", clips |-> 0, transitions |-> 0, existingTTSPaths |-> FALSE,
   files |-> {}, tempDir |-> FALSE, cleanupFiles |-> {}, i |-> 0,
   error |-> "none", published |-> FALSE]

DFilesInputs ==
  {[NoDFiles EXCEPT !.pc = "start", !.clips = n, !.transitions = t,
                    !.existingTTSPaths = x] :
     n \in 1..MaxDfClips, t \in 0..MaxDfTransitions, x \in BOOLEAN}

\* intro, one file per transition, outro
NarratorFiles(transitions) == {<<"narrator", j>> : j \in 0..(transitions + 1)}

\* phase 1: the scripts are loaded or generated and saved
DfScript ==
  /\ dfiles.pc = "start"
  /\ \E ok \in BOOLEAN :
       dfiles' = IF ok THEN [dfiles EXCEPT !.pc = "tempdir"]
                       ELSE [dfiles EXCEPT !.pc = "catch", !.error = "script"]
  /\ UNCHANGED <<evars, orun, dvars, pvars, llm, poll, dl, tfiles>>

\* phase 2: ensureTempDir, tempDir = getTempChunkDir(digestId), mkdir; with
\* existingTTSPaths the files are checked and taken as narratorAudio
DfTempDir ==
  /\ dfiles.pc = "tempdir"
  /\ \E ok \in BOOLEAN :
       dfiles' = IF ~dfiles.existingTTSPaths
                   THEN [dfiles EXCEPT !.pc = "tts", !.tempDir = TRUE]
                 ELSE IF ok
                   THEN [dfiles EXCEPT !.pc = "clips", !.tempDir = TRUE]
                 ELSE [dfiles EXCEPT !.pc = "catch", !.tempDir = TRUE,
                                     !.error = "existing"]
  /\ UNCHANGED <<evars, orun, dvars, pvars, llm, poll, dl, tfiles>>

\* generateNarratorAudio: one tts.generate(text, path) after the other; the
\* paths are pushed to cleanupFiles when the function has returned
DfGenerate ==
  /\ dfiles.pc = "tts"
  /\ \E ok \in BOOLEAN :
       dfiles' =
         IF ~ok
           THEN [dfiles EXCEPT !.pc = "catch", !.error = "tts", !.i = 0]
         ELSE IF dfiles.i < dfiles.transitions + 1
           THEN [dfiles EXCEPT !.i = @ + 1, !.files = @ \cup {<<"narrator", dfiles.i>>}]
         ELSE [dfiles EXCEPT !.pc = "clips", !.i = 0,
                             !.files = @ \cup {<<"narrator", dfiles.i>>},
                             !.cleanupFiles = @ \cup NarratorFiles(dfiles.transitions)]
  /\ UNCHANGED <<evars, orun, dvars, pvars, llm, poll, dl, tfiles>>

\* extractClipAudio, first half: downloadAudio(audioUrl, tempEpisodePath),
\* outside the function's try block
DfDownload ==
  /\ dfiles.pc = "clips"
  /\ dfiles.i < dfiles.clips
  /\ \E ok \in BOOLEAN, left \in BOOLEAN :
       dfiles' = IF ok
                   THEN [dfiles EXCEPT !.pc = "slice",
                                       !.files = @ \cup {<<"full", dfiles.i>>}]
                   ELSE [dfiles EXCEPT !.pc = "catch", !.error = "download",
                                       !.files = @ \cup LeftBy(<<"full", dfiles.i>>, left)]
  /\ UNCHANGED <<evars, orun, dvars, pvars, llm, poll, dl, tfiles>>

\* extractClipAudio, second half: sliceClip, finally cleanupDownload of the
\* full-episode file; then clipPaths.push, cleanupFiles.push(clipPath)
DfSlice ==
  /\ dfiles.pc = "slice"
  /\ \E ok \in BOOLEAN, left \in BOOLEAN :
       dfiles' =
         IF ok
           THEN [dfiles EXCEPT !.pc = "clips", !.i = @ + 1,
                   !.files = (@ \ {<<"full", dfiles.i>>}) \cup {<<"clip", dfiles.i>>},
                   !.cleanupFiles = @ \cup {<<"clip", dfiles.i>>}]
           ELSE [dfiles EXCEPT !.pc = "catch", !.error = "slice",
                   !.files = (@ \ {<<"full", dfiles.i>>})
                               \cup LeftBy(<<"clip", dfiles.i>>, left)]
  /\ UNCHANGED <<evars, orun, dvars, pvars, llm, poll, dl, tfiles>>

\* phase 4: update status "stitching", stitchDigest writes final_digest.mp3
DfStitch ==
  /\ dfiles.pc = "clips"
  /\ dfiles.i = dfiles.clips
  /\ \E ok \in BOOLEAN, left \in BOOLEAN :
       dfiles' = IF ok
                   THEN [dfiles EXCEPT !.pc = "publish", !.files = @ \cup {FinalFile}]
                   ELSE [dfiles EXCEPT !.pc = "catch", !.error = "stitch",
                                       !.files = @ \cup LeftBy(FinalFile, left)]
  /\ UNCHANGED <<evars, orun, dvars, pvars, llm, poll, dl, tfiles>>

\* phase 5: copyFile(finalOutputPath, finalDestPath), then
\* cleanupFiles.push(finalOutputPath)
DfPublish ==
  /\ dfiles.pc = "publish"
  /\ \E ok \in BOOLEAN :
       dfiles' = IF ok
                   THEN [dfiles EXCEPT !.pc = "ready", !.published = TRUE,
                                       !.cleanupFiles = @ \cup {FinalFile}]
                   ELSE [dfiles EXCEPT !.pc = "catch", !.error = "copy"]
  /\ UNCHANGED <<evars, orun, dvars, pvars, llm, poll, dl, tfiles>>

\* update status "ready", return
DfReady ==
  /\ dfiles.pc = "ready"
  /\ \E ok \in BOOLEAN :
       dfiles' = IF ok THEN [dfiles EXCEPT !.pc = "finally"]
                       ELSE [dfiles EXCEPT !.pc = "catch", !.error = "update"]
  /\ UNCHANGED <<evars, orun, dvars, pvars, llm, poll, dl, tfiles>>

\* catch: update status "failed", throw error
DfCatch ==
  /\ dfiles.pc = "catch"
  /\ dfiles' = [dfiles EXCEPT !.pc = "finally"]
  /\ UNCHANGED <<evars, orun, dvars, pvars, llm, poll, dl, tfiles>>

\* finally: if (tempDir) unlink every file of cleanupFiles
DfFinally ==
  /\ dfiles.pc = "finally"
  /\ dfiles' = [dfiles EXCEPT
                  !.pc = "ended",
                  !.files = IF dfiles.tempDir THEN @ \ dfiles.cleanupFiles ELSE @]
  /\ UNCHANGED <<evars, orun, dvars, pvars, llm, poll, dl, tfiles>>


(* ------------------------------------------------------- persisted domains *)
\* CREATE TYPE "DigestStatus" AS ENUM (...): the values the status column of
\* the Digest table accepts
PersistedDigestStatus ==
  {"pending", "generating_script", "generating_audio", "stitching", "ready", "failed"}

(* ------------------------------------------------------------------ system *)
\* no Episode has been worked on, no Digest exists
InitStore ==
  /\ status = [e \in Episodes |-> "pending"]
  /\ transcript = [e \in Episodes |-> NoTranscript]
  /\ clips = [e \in Episodes |-> {}]
  /\ tjob = [e \in Episodes |-> NoJob]
  /\ ajob = [e \in Episodes |-> [u \in Users |-> NoJob]]
  /\ trun = [r \in TRuns |-> IdleT]
  /\ arun = [r \in ARuns |-> IdleA]
  /\ orun = IdleO
  /\ stalls = [q \in {"transcription", "analysis"} |-> 0]
  /\ digest = NoDigest
  /\ cjob = NoJob
  /\ djob = NoJob
  /\ crun = [w \in Workers |-> IdleC]
  /\ drun = [w \in Workers |-> IdleD]

\* Init of the pipeline: the store as above, no handler function under evaluation
InitRest ==
  /\ llm = NoLlm /\ poll = NoPoll /\ dl = NoDl /\ tfiles = NoTFiles /\ dfiles = NoDFiles

InitIdle == save = NoSave /\ merge = NoMerge /\ prep = NoPrep /\ InitRest

Init == InitStore /\ pick = NoPick /\ stitch = NoStitch /\ InitIdle

\* the state of Init once the Episode has been transcribed by one run
InitTranscribed ==
  /\ status = [e \in Episodes |-> "transcribed"]
  /\ transcript = [e \in Episodes |-> CHOOSE t \in Transcripts : TRUE]
  /\ clips = [e \in Episodes |-> {}]
  /\ tjob = [e \in Episodes |-> JobCompleted(QueueAdd(NoJob))]
  /\ ajob = [e \in Episodes |-> [u \in Users |-> NoJob]]
  /\ trun = [r \in TRuns |-> IF r = 1 THEN [IdleT EXCEPT !.pc = "done"] ELSE IdleT]
  /\ arun = [r \in ARuns |-> IdleA]
  /\ orun = IdleO
  /\ stalls = [q \in {"transcription", "analysis"} |-> 0]
  /\ digest = NoDigest
  /\ cjob = NoJob
  /\ djob = NoJob
  /\ crun = [w \in Workers |-> IdleC]
  /\ drun = [w \in Workers |-> IdleD]
  /\ pick = NoPick
  /\ stitch = NoStitch
  /\ InitIdle

\* and once one analysis run, for user "u1", has stored MaxClips clips
InitAnalyzed ==
  /\ status = [e \in Episodes |-> "analyzed"]
  /\ transcript = [e \in Episodes |-> CHOOSE t \in Transcripts : TRUE]
  /\ clips = [e \in Episodes |-> ClipsOf(1, MaxClips)]
  /\ tjob = [e \in Episodes |-> JobCompleted(QueueAdd(NoJob))]
  /\ ajob = [e \in Episodes |->
               [u \in Users |-> IF u = "u1" THEN JobCompleted(QueueAdd(NoJob)) ELSE NoJob]]
  /\ trun = [r \in TRuns |-> IF r = 1 THEN [IdleT EXCEPT !.pc = "done"] ELSE IdleT]
  /\ arun = [r \in ARuns |->
               IF r = 1 THEN [IdleA EXCEPT !.pc = "done", !.n = MaxClips, !.i = MaxClips]
               ELSE IdleA]
  /\ orun = IdleO
  /\ stalls = [q \in {"transcription", "analysis"} |-> 0]
  /\ digest = NoDigest
  /\ cjob = NoJob
  /\ djob = NoJob
  /\ crun = [w \in Workers |-> IdleC]
  /\ drun = [w \in Workers |-> IdleD]
  /\ pick = NoPick
  /\ stitch = NoStitch
  /\ InitIdle

\* the same with MaxCandidates clips stored by that run
InitCandidates ==
  /\ status = [e \in Episodes |-> "analyzed"]
  /\ transcript = [e \in Episodes |-> CHOOSE t \in Transcripts : TRUE]
  /\ clips = [e \in Episodes |-> ClipsOf(1, MaxCandidates)]
  /\ tjob = [e \in Episodes |-> JobCompleted(QueueAdd(NoJob))]
  /\ ajob = [e \in Episodes |->
               [u \in Users |-> IF u = "u1" THEN JobCompleted(QueueAdd(NoJob)) ELSE NoJob]]
  /\ trun = [r \in TRuns |-> IF r = 1 THEN [IdleT EXCEPT !.pc = "done"] ELSE IdleT]
  /\ arun = [r \in ARuns |->
               IF r = 1 THEN [IdleA EXCEPT !.pc = "done", !.n = MaxCandidates, !.i = MaxCandidates]
               ELSE IdleA]
  /\ orun = IdleO
  /\ stalls = [q \in {"transcription", "analysis"} |-> 0]
  /\ digest = NoDigest
  /\ cjob = NoJob
  /\ djob = NoJob
  /\ crun = [w \in Workers |-> IdleC]
  /\ drun = [w \in Workers |-> IdleD]
  /\ pick = NoPick
  /\ stitch = NoStitch
  /\ InitIdle

\* one evaluation of the curation handler's phases 4 and 5
InitPick == InitStore /\ pick \in PickInputs /\ stitch = NoStitch /\ InitIdle

\* one call of stitchDigest
InitStitch == InitStore /\ pick = NoPick /\ stitch \in StitchInputs /\ InitIdle

\* the transcription stage: its API route, its queue and its handler
NextTranscription ==
  \/ \E e \in Episodes : ApiTranscribe(e)
  \/ \E r \in TRuns, e \in Episodes : TDeliver(r, e)
  \/ \E r \in TRuns, e \in Episodes : TRedeliver(r, e)
  \/ \E r \in TRuns : TSetDownloading(r)
  \/ \E r \in TRuns : TDownload(r)
  \/ \E r \in TRuns : TTranscribe(r)

\* the analysis stage
NextAnalysis ==
  \/ \E e \in Episodes, u \in Users : ApiAnalyze(e, u)
  \/ \E r \in ARuns, e \in Episodes, u \in Users : ADeliver(r, e, u)
  \/ \E r \in ARuns, e \in Episodes, u \in Users : ARedeliver(r, e, u)
  \/ \E r \in ARuns : ASetAnalyzing(r)
  \/ \E r \in ARuns : ACallLLM(r)
  \/ \E r \in ARuns : AInsert(r)
  \/ \E r \in ARuns : AFinish(r)

\* the orchestrator job's userId (users are interchangeable)
NextOrchestrator ==
  \/ \E u \in {"u1"} : OStart(u)
  \/ \E e \in Episodes : OFanout(e)
  \/ OQueueAnalysis
  \/ OPoll
  \/ OPollTimeout

\* curation and assembly through their queues, started by the API routes
NextDigestQueues ==
  \/ \E cs \in SUBSET ClipIds, podcastOk \in BOOLEAN : ApiCreateDigest(cs, podcastOk)
  \/ ApiCurate
  \/ CDeliver
  \/ DDeliver
  \/ \E w \in Workers : CFetch(w)
  \/ \E w \in Workers : CSelect(w)
  \/ \E w \in Workers : CInsert(w)
  \/ \E w \in Workers : CFinish(w)
  \/ \E w \in Workers : DSetGeneratingScript(w)
  \/ \E w \in Workers : DScript(w)
  \/ \E w \in Workers : DSetGeneratingAudio(w)
  \/ \E w \in Workers : DAudio(w)
  \/ \E w \in Workers : DStitch(w)

\* an Orchestrator run over analyzed episodes: phases 1, 3, 5 and 6
NextDigestInline ==
  \/ \E u \in {"u1"} : OStart(u)
  \/ OQueueAnalysis
  \/ OCreateDigest
  \/ CInline
  \/ DInline

\* the four stage handlers, every job delivered to one invocation at a time
NextStages ==
  \/ \E e \in Episodes : ApiTranscribe(e)
  \/ \E r \in TRuns, e \in Episodes : TDeliver(r, e)
  \/ \E r \in TRuns : TSetDownloading(r)
  \/ \E r \in TRuns : TDownload(r)
  \/ \E r \in TRuns : TTranscribe(r)
  \/ \E e \in Episodes, u \in Users : ApiAnalyze(e, u)
  \/ \E r \in ARuns, e \in Episodes, u \in Users : ADeliver(r, e, u)
  \/ \E r \in ARuns : ASetAnalyzing(r)
  \/ \E r \in ARuns : ACallLLM(r)
  \/ \E r \in ARuns : AInsert(r)
  \/ \E r \in ARuns : AFinish(r)
  \/ NextDigestQueues

Next == NextTranscription \/ NextAnalysis \/ NextOrchestrator

\* the Episode pipeline with the Orchestrator's fan-out and poll loop
Spec == Init /\ [][Next]_vars

\* the transcription stage alone
SpecTranscription == Init /\ [][NextTranscription]_vars

\* the analysis stage of a transcribed Episode
SpecAnalysis == InitTranscribed /\ [][NextAnalysis]_vars

\* the Digest of an analyzed Episode: curation and assembly, through the queues
\* and inline
SpecDigest == InitAnalyzed /\ [][NextDigestQueues \/ NextDigestInline]_vars

\* the four stages from a pending Episode to a ready Digest
SpecStages == Init /\ [][NextStages]_vars

\* the Digest of an Episode with MaxCandidates clips
SpecCuration == InitCandidates /\ [][NextDigestQueues \/ NextDigestInline]_vars

\* the Digest stages with digest jobs that carry the resume flags
NextAssembly ==
  \/ NextDigestQueues
  \/ NextDigestInline
  \/ \E skipScriptGeneration, existingTTSPaths \in BOOLEAN :
       DDeliverResume(skipScriptGeneration, existingTTSPaths)

SpecAssembly == InitAnalyzed /\ [][NextAssembly]_vars

\* phases 4 and 5 of curationWorker on their own
NextPick == PickSelect \/ PickInsert \/ PickFinish

SpecPick == InitPick /\ [][NextPick]_vars

\* the sequence loop of stitchDigest on its own
NextStitch == StitchIntro \/ StitchClip \/ StitchOutro

SpecStitch == InitStitch /\ [][NextStitch]_vars

\* phase 3 of analysisWorker on its own
InitSave ==
  /\ InitStore /\ pick = NoPick /\ stitch = NoStitch
  /\ save \in SaveInputs /\ merge = NoMerge /\ prep = NoPrep /\ InitRest

NextSave == SaveDelete \/ SaveInsert \/ SaveFinish

SpecSave == InitSave /\ [][NextSave]_vars

\* the transcript of one Transcription run on its own
InitMerge ==
  /\ InitStore /\ pick = NoPick /\ stitch = NoStitch
  /\ save = NoSave /\ merge \in MergeInputs /\ prep = NoPrep /\ InitRest

NextMerge ==
  \/ MergeChunk \/ MergeSort \/ MergePersist \/ SinglePersist
  \/ MergeCatch \/ MergeAnalysisCatch \/ MergeApiAnalyze

SpecMerge == InitMerge /\ [][NextMerge]_vars

\* chunk preparation on its own
InitPrep ==
  /\ InitStore /\ pick = NoPick /\ stitch = NoStitch
  /\ save = NoSave /\ merge = NoMerge /\ prep \in PrepInputs /\ InitRest

NextPrep == PrepSize \/ PrepCompress \/ PrepUnlink \/ PrepSplit

SpecPrep == InitPrep /\ [][NextPrep]_vars

\* one Orchestrator run over a pending Episode up to the creation of its Digest,
\* every job delivered to one invocation at a time
NextRun ==
  \/ \E r \in TRuns, e \in Episodes : TDeliver(r, e)
  \/ \E r \in TRuns : TSetDownloading(r)
  \/ \E r \in TRuns : TDownload(r)
  \/ \E r \in TRuns : TTranscribe(r)
  \/ \E r \in ARuns, e \in Episodes, u \in Users : ADeliver(r, e, u)
  \/ \E r \in ARuns : ASetAnalyzing(r)
  \/ \E r \in ARuns : ACallLLM(r)
  \/ \E r \in ARuns : AInsert(r)
  \/ \E r \in ARuns : AFinish(r)
  \/ NextOrchestrator
  \/ OCreateDigest

SpecRun == Init /\ [][NextRun]_vars

\* one call of LLMClient.complete, for every configuration and model name
InitLlm ==
  /\ InitStore /\ pick = NoPick /\ stitch = NoStitch
  /\ save = NoSave /\ merge = NoMerge /\ prep = NoPrep
  /\ llm \in LlmInputs
  /\ poll = NoPoll /\ dl = NoDl /\ tfiles = NoTFiles /\ dfiles = NoDFiles

NextLlm == LlmCall \/ LlmCatch

SpecLlm == InitLlm /\ [][NextLlm]_vars

\* the temp files of one transcriptionWorker run, for every size and duration
\* of the downloaded file
InitTFiles ==
  /\ InitStore /\ pick = NoPick /\ stitch = NoStitch
  /\ save = NoSave /\ merge = NoMerge /\ prep = NoPrep
  /\ llm = NoLlm /\ poll = NoPoll /\ dl = NoDl /\ dfiles = NoDFiles
  /\ tfiles \in TFilesInputs

NextTFiles ==
  \/ TfBegin \/ TfDownload \/ TfNeedsChunking \/ TfSingle \/ TfCompress
  \/ TfSplit \/ TfChunks \/ TfSave \/ TfCatch \/ TfFinally

SpecTFiles == InitTFiles /\ [][NextTFiles]_vars

\* the temp files of one digestWorker run
InitDFiles ==
  /\ InitStore /\ pick = NoPick /\ stitch = NoStitch
  /\ save = NoSave /\ merge = NoMerge /\ prep = NoPrep
  /\ llm = NoLlm /\ poll = NoPoll /\ dl = NoDl /\ tfiles = NoTFiles
  /\ dfiles \in DFilesInputs

NextDFiles ==
  \/ DfScript \/ DfTempDir \/ DfGenerate \/ DfDownload \/ DfSlice \/ DfStitch
  \/ DfPublish \/ DfReady \/ DfCatch \/ DfFinally

SpecDFiles == InitDFiles /\ [][NextDFiles]_vars

\* one call of downloadAudio
InitDl ==
  /\ InitStore /\ pick = NoPick /\ stitch = NoStitch
  /\ save = NoSave /\ merge = NoMerge /\ prep = NoPrep
  /\ llm = NoLlm /\ poll = NoPoll /\ tfiles = NoTFiles /\ dfiles = NoDFiles
  /\ dl \in DlInputs

NextDl == DlAttempt \/ DlTick \/ DlAbort \/ DlResponse \/ DlBody \/ DlCatch

SpecDl == InitDl /\ [][NextDl]_vars

\* one call of waitForEpisodesAnalyzed
InitPoll ==
  /\ InitStore /\ pick = NoPick /\ stitch = NoStitch
  /\ save = NoSave /\ merge = NoMerge /\ prep = NoPrep
  /\ llm = NoLlm /\ dl = NoDl /\ tfiles = NoTFiles /\ dfiles = NoDFiles
  /\ poll \in PollInputs

NextPoll == PollWhile \/ PollBody \/ PollSleep

SpecPoll == InitPoll /\ [][NextPoll]_vars

(* ------------------------------------------------------------------ claims *)
TStarts(r, e) == TDeliver(r, e) \/ TRedeliver(r, e)
AStarts(r, e, u) == ADeliver(r, e, u) \/ ARedeliver(r, e, u)
TWorking == {"checked", "downloading", "transcribing"}

\* C1: of the transcription handler runs on one Episode, at most one is past the
\* status check and doing download / transcribe work at any time
C1_OneTranscriberPerEpisode ==
  \A e \in Episodes :
    Cardinality({r \in TRuns : trun[r].ep = e /\ trun[r].pc \in TWorking}) <= 1

\* C2: no status write moves an Episode back to an earlier status of the order
\* pending, downloading, transcribing, transcribed, analyzing, analyzed, other
\* than the reset out of failed
C2_StatusMonotonic ==
  [][\A e \in Episodes :
       status'[e] # status[e] =>
         \/ status[e] = "failed"
         \/ status'[e] = "failed"
         \/ Rank(status'[e]) > Rank(status[e])]_vars

\* C3: a transcription run that starts on an Episode that is transcribed,
\* analyzing or analyzed, or that has a transcript, returns that transcript and
\* writes nothing
C3_TranscribedOnce ==
  [][\A r \in TRuns, e \in Episodes :
       (/\ TStarts(r, e)
        /\ \/ status[e] \in {"transcribed", "analyzing", "analyzed"}
           \/ transcript[e] # NoTranscript)
       => /\ trun'[r].pc = "returned"
          /\ trun'[r].result = transcript[e]
          /\ UNCHANGED <<status, transcript>>]_vars

C5_BusyFailsFast ==
  [][\A r \in TRuns :
       /\ \A e \in Episodes :
            (TStarts(r, e) /\ status[e] \in {"downloading", "transcribing"})
            => /\ trun'[r].pc = "busy"
               /\ UNCHANGED <<status, transcript>>
       /\ trun[r].pc = "busy" => ~(TSetDownloading(r) \/ TDownload(r) \/ TTranscribe(r))]_vars

C5_Witness == \E r \in TRuns : trun[r].pc = "busy"

\* C6: every status change the transcription handler writes is pending->downloading,
\* failed->downloading, downloading->transcribing, transcribing->transcribed or
\* any->failed, and "downloading" is written only onto pending or failed
C6_TranscriptionTransitions ==
  [][\A r \in TRuns :
       /\ TSetDownloading(r) => status[trun[r].ep] \in {"pending", "failed"}
       /\ (TDownload(r) \/ TTranscribe(r)) /\ status'[trun[r].ep] # status[trun[r].ep]
          => \/ status'[trun[r].ep] = "failed"
             \/ <<status[trun[r].ep], status'[trun[r].ep]>> \in
                  {<<"downloading", "transcribing">>, <<"transcribing", "transcribed">>}]_vars

\* C7: the analysis handler writes "analyzing" only onto a transcribed Episode, and
\* its status changes are transcribed->analyzing, analyzing->analyzed or any->failed
C7_AnalysisTransitions ==
  [][\A r \in ARuns :
       /\ ASetAnalyzing(r) => status[arun[r].ep] = "transcribed"
       /\ AFinish(r) /\ status'[arun[r].ep] # status[arun[r].ep]
          => status[arun[r].ep] = "analyzing"]_vars

\* C8: an analysis run that starts on an analyzed Episode returns the Episode's
\* clips, writes no status and no clip, and takes no further step (no LLM call)
C8_AnalyzedReturnsClips ==
  [][\A r \in ARuns :
       /\ \A e \in Episodes, u \in Users :
            (AStarts(r, e, u) /\ status[e] = "analyzed")
            => /\ arun'[r].pc = "returned"
               /\ arun'[r].result = clips[e]
               /\ UNCHANGED <<status, clips>>
       /\ arun[r].pc = "returned"
          => ~(ASetAnalyzing(r) \/ ACallLLM(r) \/ AInsert(r) \/ AFinish(r))]_vars

C8_Witness == \E r \in ARuns : arun[r].pc = "returned" /\ arun[r].result # {}

\* C9: whenever an Episode is analyzed, its Clip rows are exactly the clips of one
\* analysis run
C9_ClipsOfOneRun ==
  \A e \in Episodes :
    status[e] = "analyzed" =>
      \E r \in ARuns : /\ arun[r].ep = e
                        /\ arun[r].pc \in {"inserting", "done"}
                        /\ clips[e] = ClipsOf(r, arun[r].n)

CActive(w) == crun[w].pc \in {"curating", "fetched", "inserting"}
DActive(w) == drun[w].pc \in {"begun", "script", "scripted", "audio", "stitching"}

\* C10: no curation run and assembly run are at work on the Digest at the same
\* time, whether started by the Orchestrator or through the queues
C10_CurationAssemblyExclusive ==
  ~\E cw \in Workers, dw \in Workers : CActive(cw) /\ DActive(dw)

\* C11: once the Digest is ready no step changes its status, and no assembly run
\* writes the published file again (the copy made by the last step of a run)
C11_ReadyIsTerminal ==
  [][digest.status = "ready" =>
       /\ digest'.status = "ready"
       /\ \A w \in Workers : ~(drun[w].pc = "stitching" /\ drun'[w].pc = "done")]_vars

\* C12: a ready Digest has at least one DigestClip
C12_ReadyHasClips == digest.status = "ready" => digest.clips # {}

\* C13: the order values of the DigestClips are exactly 0..N-1, N the number of
\* DigestClips
C13_OrderContiguous ==
  {row[2] : row \in digest.clips} = {k - 1 : k \in 1..Cardinality(digest.clips)}

\* C14: a ready Digest has its audioUrl set and a duration above 0
C14_ReadyHasAudioAndDuration ==
  digest.status = "ready" => digest.audio /\ digest.duration > 0

\* C15: a Digest with a narratorScript has one transition less than it has
\* DigestClips, or it is not ready
C15_TransitionsMatchClips ==
  digest.script =>
    \/ digest.transitions + 1 = Cardinality(digest.clips)
    \/ digest.status # "ready"

\* the statuses an Assembly run writes on its way to ready: phase 1 writes none
\* when the stored script is reused, phase 2 none when the job carries
\* existingTTSPaths
WrittenStatuses(skipped, tts) ==
  (IF skipped THEN <<>> ELSE <<"generating_script">>)
    \o (IF tts THEN <<>> ELSE <<"generating_audio">>)
    \o <<"stitching", "ready">>

\* C16 as stated: an Assembly run that has brought the Digest to ready started
\* from status pending and wrote generating_script, generating_audio, stitching
\* and ready, in that order
C16_FromPendingAllStatuses ==
  \A w \in Workers :
    drun[w].pc = "done" =>
      /\ drun[w].from = "pending"
      /\ drun[w].wrote = <<"generating_script", "generating_audio", "stitching", "ready">>

\* C16: an Assembly run that has brought the Digest to ready wrote, in this
\* order, generating_script unless it reused the stored script, generating_audio
\* unless its job carried existingTTSPaths, then stitching and ready
C16_StatusesInOrder ==
  \A w \in Workers :
    drun[w].pc = "done" =>
      drun[w].wrote = WrittenStatuses(drun[w].skipped, drun[w].tts)

\* a run without resume flags took a pending Digest to ready
C16_Witness ==
  \E w \in Workers :
    /\ drun[w].pc = "done"
    /\ drun[w].from = "pending"
    /\ ~drun[w].skipped /\ ~drun[w].tts
    /\ digest.status = "ready"

\* C17: for one clip or more and any number of transitions the stitched sequence
\* is the intro, the clips in order and the outro, with every transition between
\* two clips
C17_TransitionsBetweenClips ==
  stitch.pc = "done" /\ stitch.clips >= 1 =>
    LET s == stitch.sequence
    IN /\ s[1] = <<"intro", 0>>
       /\ s[Len(s)] = <<"outro", 0>>
       /\ SelectSeq(s, LAMBDA x : x[1] = "clip") = [k \in 1..stitch.clips |-> <<"clip", k - 1>>]
       /\ \A k \in 1..Len(s) :
            s[k][1] = "transition" => s[k - 1][1] = "clip" /\ s[k + 1][1] = "clip"

\* C18: a Curation run started on a Digest that has DigestClips and a
\* narratorScript returns at once (no LLM call) and leaves the Digest as it is
C18_CuratedIsNoOp ==
  [][\A w \in Workers :
       /\ crun[w].pc \in CEnded \cup {"idle"}
       /\ crun'[w] # crun[w]
       /\ digest.clips # {}
       /\ digest.script
       => digest' = digest /\ crun'[w].pc \in CEnded]_vars

\* the candidates the answer did not validly name, by score
Unselected(p) == SelectSeq(p.cand, LAMBDA c : c \notin Range(ValidIds(p.answer, p.cand)))

\* C19: with at least min candidates, a Curation run that succeeds leaves at
\* least min DigestClips of distinct Clips, all of them candidates; when fewer
\* than min of the answer's ids are valid, the selection is these followed by the
\* highest-scored candidates not among them, min ids in all
C19_FillsToMin ==
  pick.pc = "done" /\ Len(pick.cand) >= pick.min =>
    /\ Cardinality(ClipsIn(pick.rows)) >= pick.min
    /\ Cardinality(ClipsIn(pick.rows)) = Cardinality(pick.rows)
    /\ ClipsIn(pick.rows) \subseteq Range(pick.cand)
    /\ LET valid == ValidIds(pick.answer, pick.cand)
       IN Len(valid) < pick.min =>
            pick.sel = valid \o SubSeq(Unselected(pick), 1, pick.min - Len(valid))

\* a run that had to fill its selection has succeeded
C19_Witness ==
  /\ pick.pc = "done"
  /\ Len(pick.cand) >= pick.min
  /\ Len(ValidIds(pick.answer, pick.cand)) < pick.min
  /\ Len(pick.answer) > 0

\* C20: after a successful Curation run the Digest has at most max DigestClips
C20_AtMostMax == pick.pc = "done" => Cardinality(pick.rows) <= pick.max

\* C21: every Clip row the analysis handler stores lies inside the Episode's
\* audio, 0 <= startTime < endTime <= transcript duration, whatever the LLM
\* answered
C21_ClipsInRange ==
  \A k \in 1..Len(save.rows) :
    /\ 0 <= save.rows[k].startTime
    /\ save.rows[k].startTime < save.rows[k].endTime
    /\ save.rows[k].endTime <= save.duration

\* the segments of the answers that went into the stored transcript
MergedFiles == {c \in 1..Len(merge.results) : merge.results[c] # <<>>}

C25_EverySegmentOnceShifted ==
  merge.pc \in {"merged", "persisted"} /\ merge.chunks # <<>> =>
    /\ \A c \in 1..Len(merge.chunks) : \A k \in 1..Len(merge.results[c]) :
         \E j \in 1..Len(merge.allSegments) :
           /\ merge.allSegments[j] =
                [start |-> merge.results[c][k].start + merge.chunks[c].startTime,
                 end |-> merge.results[c][k].end + merge.chunks[c].startTime,
                 text |-> merge.results[c][k].text]
           /\ merge.allSegments[j].start >= merge.chunks[c].startTime
           /\ \A i \in 1..Len(merge.allSegments) :
                merge.allSegments[i].text = <<c, k>> => i = j
    /\ \A j \in 1..Len(merge.allSegments) :
         \E c \in 1..Len(merge.chunks) : \E k \in 1..Len(merge.results[c]) :
           merge.allSegments[j].text = <<c, k>>

\* a merge of two chunks, the second starting after 0, with segments in both
C25_Witness ==
  /\ merge.pc = "merged"
  /\ Len(merge.chunks) = 2
  /\ merge.chunks[2].startTime > 0
  /\ MergedFiles = {1, 2}

C24_SplitAfterCompression ==
  /\ prep.call = "prepareAudioForWhisper"
  /\ prep.pc \in {"done", "threw"}
  /\ prep.fileSize > WHISPER_MAX_FILE_SIZE
  /\ CompressedBytesPerSecond * prep.duration > WHISPER_MAX_FILE_SIZE
  => /\ prep.pc = "done"
     /\ prep.chunks # <<>>
     /\ \A k \in 1..Len(prep.chunks) : prep.chunks[k].index = k - 1
     /\ prep.chunks[1].startTime = 0
     /\ prep.chunks[Len(prep.chunks)].endTime = prep.duration

\* a job of Episode e that threw and waits for its next attempt
RetryPending(e) ==
  \/ tjob[e].st = "waiting" /\ tjob[e].att \in 1..(Attempts - 1)
  \/ \E u \in Users : ajob[e][u].st = "waiting" /\ ajob[e][u].att \in 1..(Attempts - 1)

\* C26: an Episode has status failed only once its job has used up all its
\* attempts: while a retry of the job is pending, the Episode is not failed
C26_FailedOnlyAfterLastAttempt ==
  \A e \in Episodes : status[e] = "failed" => ~RetryPending(e)

\* Episode e has failed for good: no job of it is queued, waits for a retry or runs
FailedForGood(e) ==
  /\ status[e] = "failed"
  /\ tjob[e].st \notin {"waiting", "active"}
  /\ \A u \in Users : ajob[e][u].st \notin {"waiting", "active"}

\* C27: the Orchestrator's poll loop fails the run for episode failures only
\* when every in-window Episode has failed for good; an Episode that can still
\* be transcribed and analyzed within its attempts does not fail it
C27_RunFailsOnlyWhenAllFail ==
  [][(orun.pc = "poll" /\ orun'.pc = "failed")
       => \A e \in Episodes : FailedForGood(e)]_vars

C29_FanoutQueuesTranscription ==
  [][\A e \in Episodes :
       (orun.pc = "fanout" /\ e \in orun.todo /\ e \notin orun'.todo)
       => (status'[e] \in {"pending", "failed"}
             => tjob'[e].st \in {"waiting", "active"})]_vars

LlmDone == llm.pc \in {"returned", "threw"}

\* C31 as stated: whenever the selected provider answers with an error while
\* fallbackToOpenAI is enabled and a secondary credential exists, complete has
\* issued exactly two requests, the second one to the fallback provider
C31_RetryWheneverFallbackEnabled ==
  (LlmDone /\ llm.fallbackToOpenAI /\ llm.openaiApiKey
     /\ (llm.errors >= 1 \/ llm.pc = "threw"))
    => /\ Len(llm.requests) = 2
       /\ llm.requests[2].provider = "openai"

\* C31 amended: when the selected provider is openrouter and it answers with an
\* error while fallbackToOpenAI is enabled and a secondary credential exists,
\* complete issues exactly one more request, to openai, with the secondary
\* credential and the provider name of the same logical model; and no call of
\* complete issues more than two provider requests
C31_OneRetryFromOpenRouter ==
  /\ Len(llm.requests) <= 2
  /\ (LlmDone /\ llm.provider = "openrouter" /\ llm.fallbackToOpenAI /\ llm.openaiApiKey
        /\ (llm.errors >= 1 \/ llm.pc = "threw"))
       => /\ Len(llm.requests) = 2
          /\ llm.requests[1].provider = "openrouter"
          /\ llm.requests[2] =
               [provider |-> "openai",
                model |-> getProviderModelName(LogicalModel(llm), "openai"),
                apiKey |-> "openaiApiKey"]

C31_Witness ==
  /\ llm.pc = "returned" /\ llm.provider = "openrouter" /\ llm.errors = 1
  /\ llm.model = "meta/llama-3"
  /\ Len(llm.requests) = 2 /\ llm.requests[2].model = "llama-3"

\* C39: consecutive chunk windows of splitAudioIntoChunks overlap by exactly
\* overlapSeconds: chunk[i].endTime - chunk[i+1].startTime = overlapSeconds
\* whenever chunk[i] is not cut short by the end of the audio
C39_AdjacentOverlapIsOverlapSeconds ==
  (prep.pc = "done" /\ prep.call = "splitAudioIntoChunks")
    => \A k \in 1..(Len(prep.chunks) - 1) :
         prep.chunks[k].endTime < prep.duration
           => prep.chunks[k].endTime - prep.chunks[k + 1].startTime = prep.overlap

\* C40: every status value the pipeline writes to a Digest is a member of the
\* persisted DigestStatus domain, so that no status write is rejected by the
\* store
C40_WrittenStatusPersistable ==
  digest.status # "none" => digest.status \in PersistedDigestStatus

\* C32: every status write of a stage is a conditional update: at the moment of
\* the write the Episode's status is one the handler's status check admits (for
\* its first write) or the status the run itself wrote last (for its later
\* writes), so that a write based on a stale read never overwrites a status
\* another handler set in between
C32_WritesAreConditional ==
  [][/\ \A r \in TRuns :
          /\ TSetDownloading(r) => TStatusCheck(status[trun[r].ep]) = "checked"
          /\ (TDownload(r) \/ TTranscribe(r))
               /\ status'[trun[r].ep] \in {"transcribing", "transcribed"}
             => status[trun[r].ep] = trun[r].pc
     /\ \A r \in ARuns :
          /\ ASetAnalyzing(r)
             => AStatusCheck(status[arun[r].ep], transcript[arun[r].ep] # NoTranscript)
                  = "checked"
          /\ AFinish(r) => status[arun[r].ep] = "analyzing"]_vars

\* C33: when a job is delivered again after its handler stopped with the Episode
\* in an in-progress status (downloading, transcribing, analyzing), the new run
\* resumes the work: it passes the status check instead of ending there
C33_RedeliveryResumes ==
  [][/\ \A r \in TRuns, e \in Episodes :
          (TRedeliver(r, e) /\ status[e] \in {"downloading", "transcribing"})
          => trun'[r].pc = "checked"
     /\ \A r \in ARuns, e \in Episodes, u \in Users :
          (ARedeliver(r, e, u) /\ status[e] = "analyzing")
          => arun'[r].pc = "checked"]_vars

\* C34: replacing an Episode's Clips is all-or-nothing: when an Analysis run has
\* failed, the Clip rows the Episode had before the run are all still there and
\* no row the run created is
C34_FailedRunKeepsPriorClips ==
  save.pc = "failed" => save.rows = save.prior

\* C35: when a Transcription run has ended, with its result or with an error at
\* any step, none of the temp files it created is left: not the downloaded
\* file, not the compressed file, not a chunk file
C35_NoTempFileLeft == tfiles.pc = "ended" => tfiles.files = {}

\* C36: when an Assembly run has ended, with its result or with an error, every
\* temp file it wrote into the Digest's work dir (narrator audio, full-episode
\* downloads, clip slices, the concatenated file) is deleted, and the published
\* artifact of a run that succeeded is left in place
C36_WorkDirEmptied ==
  dfiles.pc = "ended"
    => /\ dfiles.files = {}
       /\ dfiles.error = "none" => dfiles.published

C38_AttemptAbortedAfterTimeout ==
  dl.pc \in {"fetch", "stream"} => dl.elapsed <= dl.timeout

====
